----------------------------- MODULE CalmProofs -----------------------------
(***************************************************************************)
(* Proof of what the operator promises while nobody interferes with what   *)
(* it generates: an announced environment is complete, hosts resolve, no   *)
(* work is lost.  The inductive invariant is Working of Calm.              *)
(***************************************************************************)
EXTENDS Calm, LifecycleProofs

-----------------------------------------------------------------------------
\* Generations.

\* An object grows older: it keeps its spec, or has a new generation.
Older(c, d) ==
    /\ d.uid = c.uid
    /\ c.deleting => d.deleting
    /\ \/ d.gen = c.gen /\ d.spec = c.spec /\ d.deleting = c.deleting
       \/ d.gen = c.gen + 1

Ages(n) ==
    \/ cr'[n] = cr[n]
    \/ cr'[n] = None
    \/ cr[n] = None /\ cr'[n] # None /\ cr'[n].uid = rev + 1
    \/ cr[n] # None /\ cr'[n] # None /\ Older(cr[n], cr'[n])

\* The effect of the two changes an object can see.
LEMMA ChangedOlder ==
    ASSUME NEW c \in CustomResources, NEW copy \in CustomResources
    PROVE  /\ Older(c, Updated(c, copy))
           /\ Older(c, Marked(c))
           /\ copy.spec = c.spec =>
                 Updated(c, copy).gen = c.gen /\ Updated(c, copy).spec = c.spec
  <1>1. /\ Updated(c, copy).uid = c.uid /\ Updated(c, copy).deleting = c.deleting
        /\ Updated(c, copy).spec = copy.spec
        /\ Updated(c, copy).gen = IF c.spec = copy.spec THEN c.gen ELSE c.gen + 1
    BY DEF Updated, CustomResources
  <1>2. Marked(c).uid = c.uid /\ Marked(c).deleting /\ Marked(c).gen = c.gen + 1
    BY DEF Marked, CustomResources
  <1> QED
    BY <1>1, <1>2 DEF Older

\* An object replaced by an older one of its own, or gone, ages; the others rest.
LEMMA OneAges ==
    ASSUME TypeOK, NEW m \in Clusters, cr[m] # None, NEW d, Older(cr[m], d),
           NEW e \in {d, None}, cr' = [cr EXCEPT ![m] = e]
    PROVE  \A n \in Clusters : Ages(n)
  BY DEF Ages, TypeOK, ApiTypeOK

\* An Update.
LEMMA UpdateAges ==
    ASSUME TypeOK, NEW m \in Clusters, NEW copy \in CustomResources, cr[m] # None,
           Update(m, copy)
    PROVE  /\ \A n \in Clusters : Ages(n)
           /\ copy.spec = cr[m].spec /\ cr'[m] # None =>
                 cr'[m].gen = cr[m].gen /\ cr'[m].spec = cr[m].spec
  <1> DEFINE new == Updated(cr[m], copy)
  <1>1. cr[m] \in CustomResources
    BY DEF TypeOK, ApiTypeOK
  <1>2. /\ Older(cr[m], new)
        /\ copy.spec = cr[m].spec => new.gen = cr[m].gen /\ new.spec = cr[m].spec
    BY <1>1, ChangedOlder
  <1>3. cr' = [cr EXCEPT ![m] = Stored(new)] /\ Stored(new) \in {new, None}
    BY DEF Update, Stored
  <1> HIDE DEF new
  <1>4. cr'[m] \in {new, None}
    BY <1>3 DEF TypeOK, ApiTypeOK
  <1> QED
    BY <1>2, <1>3, <1>4, OneAges

\* Users and other controllers.
LEMMA UserAges ==
    ASSUME TypeOK, UserNext
    PROVE  \A n \in Clusters : Ages(n)
  <1> DEFINE Goal == \A n \in Clusters : Ages(n)
  <1>1. ASSUME NEW m \in Clusters, NEW spec \in Specs, NEW foreign \in SUBSET ForeignFinalizers,
               UserCreates(m, spec, foreign)
        PROVE  Goal
    <2> DEFINE new == [ uid |-> rev + 1, rv |-> rev + 1, gen |-> 1, deleting |-> FALSE,
                        fin |-> foreign, spec |-> spec ]
    <2>1. cr[m] = None /\ cr' = [cr EXCEPT ![m] = new]
      BY <1>1 DEF UserCreates
    <2>2. new \in CustomResources
      BY DEF CustomResources, TypeOK, ApiTypeOK
    <2>3. new # None /\ new.uid = rev + 1
      BY <2>2, ApiAssumption
    <2> HIDE DEF new
    <2> QED
      BY <2>1, <2>3 DEF Ages, TypeOK, ApiTypeOK
  <1>2. ASSUME NEW m \in Clusters, NEW spec \in Specs, UserEdits(m, spec)
        PROVE  Goal
    <2> DEFINE copy == [cr[m] EXCEPT !.spec = spec]
    <2>1. cr[m] # None /\ cr' = [cr EXCEPT ![m] = Updated(cr[m], copy)]
      BY <1>2 DEF UserEdits
    <2>2. cr[m] \in CustomResources /\ copy \in CustomResources
      BY <2>1 DEF CustomResources, TypeOK, ApiTypeOK
    <2> HIDE DEF copy
    <2> QED
      BY <2>1, <2>2, ChangedOlder, OneAges
  <1>3. ASSUME NEW m \in Clusters, UserDeletes(m)
        PROVE  Goal
    <2>1. /\ cr[m] # None /\ cr[m] \in CustomResources
          /\ cr' = [cr EXCEPT ![m] = Stored(Marked(cr[m]))]
          /\ Stored(Marked(cr[m])) \in {Marked(cr[m]), None}
      BY <1>3 DEF UserDeletes, Stored, TypeOK, ApiTypeOK
    <2> QED
      BY <2>1, ChangedOlder, OneAges
  <1>4. ASSUME NEW m \in Clusters, ForeignRelease(m)
        PROVE  Goal
    <2>1. cr[m] # None /\ cr[m] \in CustomResources
      BY <1>4 DEF ForeignRelease, Terminating, TypeOK, ApiTypeOK
    <2>2. PICK f \in cr[m].fin \cap ForeignFinalizers :
              Update(m, [cr[m] EXCEPT !.fin = cr[m].fin \ {f}])
      BY <1>4 DEF ForeignRelease
    <2>3. [cr[m] EXCEPT !.fin = cr[m].fin \ {f}] \in CustomResources
      BY <2>1 DEF CustomResources
    <2> QED
      BY <2>1, <2>2, <2>3, UpdateAges
  <1>5. ASSUME NEW k \in Keys, ObjectLost(k)
        PROVE  Goal
    BY <1>5 DEF ObjectLost, Ages
  <1> QED
    BY <1>1, <1>2, <1>3, <1>4, <1>5 DEF UserNext

\* The two Updates of a pass, and everything else a manager does.
LEMMA ManagerAges ==
    ASSUME Refining, ManagerNext
    PROVE  /\ \A n \in Clusters : Ages(n)
           /\ UNCHANGED cr \/ AddFinalizer \/ RemoveFinalizer
           /\ cr'[req] # cr[req] /\ cr'[req] # None =>
                 cr'[req].uid = cr[req].uid /\ cr'[req].gen = cr[req].gen
  <1>1. UNCHANGED cr \/ AddFinalizer \/ RemoveFinalizer
    BY DEF ManagerNext, Running, Reconcile, apiVars, DeliverCluster, DeliverObjects, Dequeue,
           FetchNothing, FetchCluster, AddFinalizerConflict, SkipExisting, LookUp, RenderFails,
           Write, WriteRefused, Announce, DeleteObject, RemoveFinalizerConflict, CallFails,
           Restart
  <1>2. CASE UNCHANGED cr
    BY <1>2 DEF Ages
  <1>3. ASSUME NEW fin \in SUBSET (ForeignFinalizers \cup {Finalizer}),
               pc \notin {"idle", "fetch"}, IsCurrent(req, obj),
               Update(req, [obj EXCEPT !.fin = fin])
        PROVE  /\ \A n \in Clusters : Ages(n)
               /\ cr'[req] # None => cr'[req].uid = cr[req].uid /\ cr'[req].gen = cr[req].gen
    <2> DEFINE copy == [obj EXCEPT !.fin = fin]
    <2>1. TypeOK /\ req \in Clusters /\ obj \in CustomResources /\ cr[req] # None
      BY <1>3, PassType DEF Refining, Inductive, IsCurrent
    <2>2. obj = cr[req]
      BY <1>3, <2>1, ApiAssumption DEF Refining, Inductive, IsCurrent, VersionsFollow, Follows
    <2>3. copy \in CustomResources /\ copy.spec = cr[req].spec
      BY <2>1, <2>2 DEF CustomResources
    <2>4. Update(req, copy)
      BY <1>3
    <2> HIDE DEF copy
    <2>5. cr'[req] # None => cr'[req].uid = cr[req].uid
      BY <2>1, <2>3, <2>4, UpdateEvolves
    <2>6. /\ \A n \in Clusters : Ages(n)
          /\ cr'[req] # None => cr'[req].gen = cr[req].gen
      BY <2>1, <2>3, <2>4, UpdateAges
    <2> QED
      BY <2>5, <2>6
  <1>4. CASE AddFinalizer
    <2>1. obj.fin \cup {Finalizer} \in SUBSET (ForeignFinalizers \cup {Finalizer})
      BY <1>4, PassType DEF AddFinalizer, Refining, Inductive, CustomResources
    <2> QED
      BY <1>3, <1>4, <2>1 DEF AddFinalizer
  <1>5. CASE RemoveFinalizer
    <2>1. obj.fin \ {Finalizer} \in SUBSET (ForeignFinalizers \cup {Finalizer})
      BY <1>5, PassType DEF RemoveFinalizer, Refining, Inductive, CustomResources
    <2> QED
      BY <1>3, <1>5, <2>1 DEF RemoveFinalizer
  <1> QED
    BY <1>1, <1>2, <1>4, <1>5

\* A copy that traces an object goes on doing so.
LEMMA TracesAged ==
    ASSUME TypeOK, NEW n \in Clusters, Ages(n),
           NEW copy \in CustomResources, copy.uid <= rev, Traces(copy, cr[n])
    PROVE  Traces(copy, cr'[n])
  <1>1. /\ copy.uid \in Nat /\ copy.gen \in Nat /\ rev \in Nat
        /\ cr[n] # None => cr[n].gen \in Nat
    BY DEF CustomResources, TypeOK, ApiTypeOK
  <1>2. cr'[n] # None => copy.uid # rev + 1
    BY <1>1
  <1> QED
    BY <1>1, <1>2 DEF Ages, Older, Traces

-----------------------------------------------------------------------------
\* What the copies of a manager say about the object.

Tracing == PassUidKnown /\ GenerationsFollow

\* The copy in the cache, whoever changes the object.
LEMMA CachedTraces ==
    ASSUME Refining, Tracing, NEW n \in Clusters, Ages(n)
    PROVE  Traces(crCache[n], cr'[n])
  <1>1. CASE crCache[n] = None
    BY <1>1 DEF Traces
  <1>2. CASE crCache[n] # None
    <2>1. TypeOK /\ crCache[n] \in CustomResources /\ crCache[n].uid <= rev
      BY <1>2 DEF Refining, Inductive, TypeOK, UidsKnown
    <2> QED
      BY <2>1, TracesAged DEF Tracing, GenerationsFollow
  <1> QED
    BY <1>1, <1>2

\* The copy of the worker, while the pass that works from it goes on.
LEMMA PassTraces ==
    ASSUME Refining, Tracing, pc \notin {"idle", "fetch"}, rev <= rev', rev' \in Nat,
           \A n \in Clusters : Ages(n)
    PROVE  obj.uid <= rev' /\ Traces(obj, cr'[req])
  <1>1. TypeOK /\ req \in Clusters /\ obj \in CustomResources
    BY PassType DEF Refining, Inductive
  <1>2. obj.uid \in Nat /\ rev \in Nat /\ obj.uid <= rev
    BY <1>1 DEF CustomResources, TypeOK, ApiTypeOK, Tracing, PassUidKnown
  <1> QED
    BY <1>1, <1>2, TracesAged DEF Tracing, GenerationsFollow

\* An object traces itself.
LEMMA TracesSelf ==
    ASSUME NEW c \in CustomResources \cup {None}
    PROVE  Traces(c, c)
  BY DEF Traces, CustomResources

LEMMA UserTraces ==
    ASSUME Refining, Refining', Tracing, UserNext, UNCHANGED managerVars
    PROVE  Tracing'
  <1>1. /\ TypeOK /\ UNCHANGED <<crCache, pc, req, obj>>
        /\ rev' \in Nat
    BY DEF Refining, Inductive, managerVars, workerVars, TypeOK, ApiTypeOK
  <1>2. \A n \in Clusters : Ages(n)
    BY <1>1, UserAges
  <1>3. rev <= rev'
    <2>1. \A n \in Clusters : rev <= rev'
      BY <1>1, UserMoves DEF Moved
    <2>2. rev \in Nat
      BY <1>1 DEF TypeOK, ApiTypeOK
    <2> QED
      BY <2>1, <2>2 DEF UserNext, ObjectLost, UserCreates, UserEdits, UserDeletes, ForeignRelease,
                        Update
  <1> QED
    BY <1>1, <1>2, <1>3, CachedTraces, PassTraces DEF Tracing, PassUidKnown, GenerationsFollow,
                                                      Traces

LEMMA ManagerTraces ==
    ASSUME Refining, Refining', Tracing, ManagerNext
    PROVE  Tracing'
  <1>1. TypeOK /\ rev' \in Nat /\ rev \in Nat
    BY DEF Refining, Inductive, TypeOK, ApiTypeOK
  <1>2. \A n \in Clusters : Ages(n)
    BY ManagerAges
  <1>3. rev <= rev'
    <2>1. rev' = rev \/ rev' = rev + 1
      BY DEF ManagerNext, Running, Reconcile, apiVars, DeliverCluster, DeliverObjects, Dequeue,
             FetchNothing, FetchCluster, AddFinalizer, AddFinalizerConflict, SkipExisting,
             LookUp, RenderFails, Write, WriteRefused, Announce, DeleteObject,
             RemoveFinalizer, RemoveFinalizerConflict, CallFails, Restart, Update
    <2> QED
      BY <1>1, <2>1
  <1>4. \A n \in Clusters : Traces(crCache[n], cr'[n])
    BY <1>2, CachedTraces
  <1>5. \A n \in Clusters : Traces(cr'[n], cr'[n])
    BY TracesSelf DEF Refining, Inductive, TypeOK, ApiTypeOK
  <1>6. \A n \in Clusters : crCache'[n] \in {crCache[n], cr'[n]}
    BY <1>1 DEF ManagerNext, Running, Reconcile, apiVars, DeliverCluster, DeliverObjects, Dequeue,
           FetchNothing, FetchCluster, AddFinalizer, AddFinalizerConflict, SkipExisting, LookUp,
           RenderFails, Write, WriteRefused, Announce, DeleteObject, RemoveFinalizer,
           RemoveFinalizerConflict, CallFails, Restart, TypeOK
  <1>7. pc' \notin {"idle", "fetch"} =>
            \/ pc \notin {"idle", "fetch"} /\ UNCHANGED <<req, obj>>
            \/ req \in Clusters /\ UNCHANGED <<req, cr, rev>> /\ crCache[req] # None
                  /\ obj' = crCache[req]
            \/ req \in Clusters /\ req' = req /\ obj' = cr'[req] /\ cr'[req] # None
    <2>1. CASE FetchCluster
      BY <1>1, <2>1 DEF FetchCluster, apiVars, TypeOK, WorkerTypeOK
    <2>2. CASE AddFinalizer
      <3>1. req \in Clusters
        BY <1>1, <2>2, PassType DEF AddFinalizer
      <3>2. pc' = "lookup" => obj' \in CustomResources
        BY PassType DEF Refining, Inductive, TypeOK, WorkerTypeOK
      <3> QED
        BY <2>2, <3>1, <3>2, ApiAssumption DEF AddFinalizer, Answered, Retry, Drop
    <2>3. CASE ~FetchCluster /\ ~AddFinalizer
      BY <2>3 DEF ManagerNext, Running, Reconcile, DeliverCluster, DeliverObjects, Dequeue,
             workerVars, FetchNothing, AddFinalizerConflict, SkipExisting, LookUp,
             RenderFails, Write, WriteRefused, Announce, DeleteObject, RemoveFinalizer,
             RemoveFinalizerConflict, CallFails, Restart, Answered, Advance, GoTo, Finish,
             Retry, Drop
    <2> QED
      BY <2>1, <2>2, <2>3
  <1>8. pc' \notin {"idle", "fetch"} => obj'.uid <= rev' /\ Traces(obj', cr'[req'])
    <2>1. CASE pc \notin {"idle", "fetch"} /\ UNCHANGED <<req, obj>>
      BY <1>1, <1>2, <1>3, <2>1, PassTraces
    <2>2. CASE /\ req \in Clusters /\ UNCHANGED <<req, cr, rev>> /\ crCache[req] # None
               /\ obj' = crCache[req]
      BY <2>2 DEF Refining, UidsKnown, Tracing, GenerationsFollow
    <2>3. CASE req \in Clusters /\ req' = req /\ obj' = cr'[req] /\ cr'[req] # None
      BY <1>5, <2>3 DEF Refining, UidsKnown
    <2> QED
      BY <1>7, <2>1, <2>2, <2>3
  <1> QED
    BY <1>4, <1>5, <1>6, <1>8 DEF Tracing, PassUidKnown, GenerationsFollow

-----------------------------------------------------------------------------
\* Stages.

\* A stage that is past was not skipped, or not wanted.
LEMMA StagesPast ==
    ASSUME NEW spec, NEW i \in StageIds, NEW j \in StageIds,
           j < AfterStage(spec, i), Wanted(spec, j)
    PROVE  j < i \/ j = i
  BY DEF AfterStage, Wanted, StageIds

LEMMA TargetNames ==
    ASSUME NEW n
    PROVE  /\ Target(n, 1) = Sts(Es(n)) /\ Target(n, 2) = Svc(Es(n))
           /\ Target(n, 3) = Dep(Ds(n)) /\ Target(n, 4) = Svc(Ds(n))
           /\ Target(n, 5) = Ing(Ds(n))
           /\ Target(n, 6) = Sts(Ca(Metrics(n))) /\ Target(n, 7) = Svc(Ca(Metrics(n)))
           /\ Target(n, 8) = Sts(As(n)) /\ Target(n, 9) = Svc(As(n))
           /\ Target(n, 10) = Sts(Ca(n)) /\ Target(n, 11) = Svc(Ca(n))
  BY DEF Target, Stage, ElasticSts, ElasticSvc, DashboardDep, DashboardSvc, DashboardIngress,
         MetricsSts, MetricsSvc, ServerSts, ServerSvc, CassandraSts, CassandraSvc

\* The names of one environment and of its metrics cluster differ.
LEMMA NamesDiffer ==
    ASSUME NamesUnambiguous, NEW n \in Clusters
    PROVE  /\ Es(n) # Ds(n) /\ Es(n) # As(n) /\ Es(n) # Ca(n) /\ Es(n) # Ca(Metrics(n))
           /\ Ds(n) # As(n) /\ Ds(n) # Ca(n) /\ Ds(n) # Ca(Metrics(n))
           /\ As(n) # Ca(n) /\ As(n) # Ca(Metrics(n))
           /\ Ca(n) # Ca(Metrics(n))
  <1>1. /\ "es" \in STRING /\ "ds" \in STRING /\ "as" \in STRING /\ "ca" \in STRING
        /\ n \in Seq(STRING) /\ Metrics(n) \in Seq(STRING) /\ n # Metrics(n)
    BY PrefixesAssumption, ClusterNames DEF Prefixes, NamesUnambiguous
  <1>2. ASSUME NEW p \in STRING, NEW q \in STRING, NEW s \in Seq(STRING), NEW t \in Seq(STRING),
               p # q \/ s # t
        PROVE  <<p>> \o s # <<q>> \o t
    <2>1. <<p>> \o s = <<q>> \o t => p = q /\ s = t
      BY Gluing, ZenonT(60)
    <2> QED
      BY <1>2, <2>1
  <1>3. /\ "es" # "ds" /\ "es" # "as" /\ "es" # "ca" /\ "ds" # "as" /\ "ds" # "ca"
        /\ "as" # "ca"
    OBVIOUS
  <1> QED
    BY <1>1, <1>2, <1>3 DEF Es, Ds, As, Ca

\* So no two stages of a pass write the same object.
LEMMA TargetsDiffer ==
    ASSUME NamesUnambiguous, NEW n \in Clusters, NEW i \in StageIds, NEW j \in StageIds, i # j
    PROVE  Target(n, i) # Target(n, j)
  <1> DEFINE es == Es(n)
             ds == Ds(n)
             as == As(n)
             ca == Ca(n)
             mt == Ca(Metrics(n))
  <1>1. /\ es # ds /\ es # as /\ es # ca /\ es # mt /\ ds # as /\ ds # ca /\ ds # mt
        /\ as # ca /\ as # mt /\ ca # mt
    BY NamesDiffer
  <1>2. /\ Target(n, 1).name = es /\ Target(n, 6).name = mt
        /\ Target(n, 8).name = as /\ Target(n, 10).name = ca
    BY TargetNames DEF Sts
  <1>3. /\ Target(n, 2).name = es /\ Target(n, 4).name = ds /\ Target(n, 7).name = mt
        /\ Target(n, 9).name = as /\ Target(n, 11).name = ca
    BY TargetNames DEF Svc
  <1> HIDE DEF es, ds, as, ca, mt
  <1>4. /\ Target(n, 1).kind = "StatefulSet" /\ Target(n, 6).kind = "StatefulSet"
        /\ Target(n, 8).kind = "StatefulSet" /\ Target(n, 10).kind = "StatefulSet"
        /\ Target(n, 2).kind = "Service" /\ Target(n, 4).kind = "Service"
        /\ Target(n, 7).kind = "Service" /\ Target(n, 9).kind = "Service"
        /\ Target(n, 11).kind = "Service"
        /\ Target(n, 3).kind = "Deployment" /\ Target(n, 5).kind = "Ingress"
    <2>1. /\ Target(n, 1).kind = "StatefulSet" /\ Target(n, 6).kind = "StatefulSet"
          /\ Target(n, 8).kind = "StatefulSet" /\ Target(n, 10).kind = "StatefulSet"
      BY TargetNames DEF Sts
    <2>2. /\ Target(n, 2).kind = "Service" /\ Target(n, 4).kind = "Service"
          /\ Target(n, 7).kind = "Service" /\ Target(n, 9).kind = "Service"
          /\ Target(n, 11).kind = "Service"
      BY TargetNames DEF Svc
    <2>3. Target(n, 3).kind = "Deployment" /\ Target(n, 5).kind = "Ingress"
      BY TargetNames DEF Dep, Ing
    <2> QED
      BY <2>1, <2>2, <2>3
  <1>5. /\ Target(n, 1).name = es /\ Target(n, 2).name = es /\ Target(n, 4).name = ds
        /\ Target(n, 6).name = mt /\ Target(n, 7).name = mt /\ Target(n, 8).name = as
        /\ Target(n, 9).name = as /\ Target(n, 10).name = ca /\ Target(n, 11).name = ca
    BY <1>2, <1>3
  <1>6. SUFFICES ASSUME Target(n, i) = Target(n, j)
                 PROVE  FALSE
    OBVIOUS
  <1>7. CASE i \in {1, 6, 8, 10}
    <2>1. Target(n, i).kind = "StatefulSet"
      BY <1>4, <1>7
    <2>2. j \in {1, 6, 8, 10}
      BY <1>4, <1>6, <2>1 DEF StageIds
    <2>3. CASE i = 1
      BY <1>1, <1>5, <1>6, <2>2, <2>3
    <2>4. CASE i = 6
      BY <1>1, <1>5, <1>6, <2>2, <2>4
    <2>5. CASE i = 8
      BY <1>1, <1>5, <1>6, <2>2, <2>5
    <2>6. CASE i = 10
      BY <1>1, <1>5, <1>6, <2>2, <2>6
    <2> QED
      BY <1>7, <2>3, <2>4, <2>5, <2>6
  <1>8. CASE i \in {2, 4, 7, 9, 11}
    <2>1. Target(n, i).kind = "Service"
      BY <1>4, <1>8
    <2>2. j \in {2, 4, 7, 9, 11}
      BY <1>4, <1>6, <2>1 DEF StageIds
    <2>3. CASE i = 2
      BY <1>1, <1>5, <1>6, <2>2, <2>3
    <2>4. CASE i = 4
      BY <1>1, <1>5, <1>6, <2>2, <2>4
    <2>5. CASE i = 7
      BY <1>1, <1>5, <1>6, <2>2, <2>5
    <2>6. CASE i = 9
      BY <1>1, <1>5, <1>6, <2>2, <2>6
    <2>7. CASE i = 11
      BY <1>1, <1>5, <1>6, <2>2, <2>7
    <2> QED
      BY <1>8, <2>3, <2>4, <2>5, <2>6, <2>7
  <1>9. CASE i = 3
    <2>1. Target(n, j).kind = "Deployment"
      BY <1>4, <1>6, <1>9
    <2> QED
      BY <1>4, <1>9, <2>1 DEF StageIds
  <1>10. CASE i = 5
    <2>1. Target(n, j).kind = "Ingress"
      BY <1>4, <1>6, <1>10
    <2> QED
      BY <1>4, <1>10, <2>1 DEF StageIds
  <1> QED
    BY <1>7, <1>8, <1>9, <1>10 DEF StageIds

\* The stages that trust their lookup.
LEMMA StagesTrusting ==
    ASSUME NEW n \in Clusters, NEW i \in StageIds, ~Stage(n, i).update
    PROVE  Stage(n, i).look = Target(n, i) /\ Target(n, i) \in TrustedKids(n)
  <1>1. i = 2 \/ i = 4
    BY DEF StageIds, Stage, ElasticSts, ElasticSvc, DashboardDep, DashboardSvc,
           DashboardIngress, MetricsSts, MetricsSvc, ServerSts, ServerSvc, CassandraSts,
           CassandraSvc
  <1> QED
    BY <1>1 DEF Target, Stage, ElasticSvc, DashboardSvc, TrustedKids

\* The effect of a write on the objects.
LEMMA WriteStores ==
    ASSUME TypeOK, Write
    PROVE  /\ req \in Clusters /\ obj \in CustomResources /\ step \in StageIds
           /\ store'[Target(req, step)] # None
           /\ store'[Target(req, step)] = [uid |-> obj.uid, gen |-> obj.gen,
                                           body |-> Rendered(req, obj.spec, step)]
           /\ \A k \in Keys : k # Target(req, step) => store'[k] = store[k]
  <1> DEFINE made == Target(req, step)
             object == [uid |-> obj.uid, gen |-> obj.gen,
                        body |-> Rendered(req, obj.spec, step)]
  <1>1. req \in Clusters /\ obj \in CustomResources /\ step \in StageIds
    BY PassType DEF Write, TypeOK, WorkerTypeOK
  <1>2. made \in Keys
    BY <1>1, StageObjects DEF Target, Keys
  <1>3. store' = [store EXCEPT ![made] = object]
    BY DEF Write, ThisStage, ThisBody, Target
  <1>4. object \in Objects
    BY <1>1, BodyType DEF Objects, CustomResources, ThisBody
  <1> HIDE DEF made, object
  <1>5. /\ store'[made] = object /\ object # None
        /\ \A k \in Keys : k # made => store'[k] = store[k]
    BY <1>2, <1>3, <1>4, ObjectsAssumption DEF TypeOK, ApiTypeOK
  <1> QED
    BY <1>1, <1>5 DEF made, object

\* A teardown deletes nothing of a live environment: there is nothing, or the cluster
\* is being deleted.
LEMMA DeleteSpares ==
    ASSUME NamesUnambiguous, Refining, DeleteObject, NEW n \in Clusters,
           Live(n) \/ (cr[n] # None /\ ~Settled(n)), NEW k \in Kids(n)
    PROVE  store'[k] = store[k]
  <1>1. TypeOK /\ req \in Clusters /\ step \in StageIds /\ pc = "teardown" /\ k \in Keys
    BY PassType DEF DeleteObject, Refining, Inductive, TypeOK, WorkerTypeOK, Keys
  <1>2. store'[k] = store[k] \/ store'[k] = None
    BY <1>1 DEF DeleteObject, TypeOK, ApiTypeOK
  <1>3. CASE n # req
    BY <1>1, <1>3, OthersStay DEF ManagerNext, Running, Reconcile
  <1>4. CASE n = req /\ Guarded(cr[n])
    <2>1. cr[n] # None /\ crCache[n] # None /\ crCache[n].uid = cr[n].uid /\ crCache[n].deleting
      BY <1>1, <1>4 DEF Refining, CacheKnows, PassKnows, Guarded
    <2>2. cr[n].deleting
      BY <2>1 DEF Refining, CacheKnows
    <2>3. Settled(n)
      BY <1>1, <2>1 DEF Settled
    <2> QED
      BY <2>2, <2>3 DEF Live
  <1>5. CASE ~Guarded(cr[n])
    BY <1>2, <1>5 DEF Refining, Inductive, NoOrphans
  <1> QED
    BY <1>3, <1>4, <1>5

\* No teardown deletes an object of a metrics cluster.
LEMMA DeleteSparesMetrics ==
    ASSUME NamesUnambiguous, TypeOK, DeleteObject, NEW n \in Clusters, NEW k \in MetricsKids(n)
    PROVE  store'[k] = store[k]
  <1>1. req \in Clusters /\ step \in StageIds /\ k \in Keys
    BY PassType DEF DeleteObject, TypeOK, WorkerTypeOK, Keys
  <1>2. Doomed(req, step) \in Touched(req) /\ Doomed(req, step) \notin MetricsKids(req)
    <2>1. Ca(Metrics(req)) # Ca(req) /\ Ca(Metrics(req)) # CaMt(req)
          /\ Ca(Metrics(req)) # Es(req) /\ Ca(Metrics(req)) # As(req)
          /\ Ca(Metrics(req)) # Ds(req)
      <3>1. /\ "ca" \in STRING /\ "mt" \in STRING /\ "metrics" \in STRING
            /\ req \in Seq(STRING)
        BY <1>1, PrefixesAssumption, ClusterNames DEF Prefixes
      <3>2. CaMt(req) = <<"ca">> \o (<<"mt">> \o req) /\ <<"mt">> \o req \in Seq(STRING)
        BY <1>1, CaMtName
      <3>3. Metrics(req) # <<"mt">> \o req
        <4>1. "metrics" # "mt"
          OBVIOUS
        <4> QED
          BY <3>1, <4>1, Gluing DEF Metrics
      <3>4. Metrics(req) \in Seq(STRING)
        BY <1>1, ClusterNames
      <3>5. Ca(Metrics(req)) # CaMt(req)
        <4> DEFINE t == <<"mt">> \o req
        <4>1. t \in Seq(STRING) /\ Metrics(req) # t /\ CaMt(req) = <<"ca">> \o t
          BY <3>2, <3>3
        <4> HIDE DEF t
        <4>2. <<"ca">> \o Metrics(req) # <<"ca">> \o t
          BY <3>1, <3>4, <4>1, Gluing
        <4> QED
          BY <4>1, <4>2 DEF Ca
      <3> QED
        BY <1>1, <3>5, NamesDiffer
    <2>2. Doomed(req, step).name \in {Es(req), Ds(req), As(req), Ca(req), CaMt(req)}
      BY <1>1 DEF Doomed, StageIds, Sts, Svc, Dep, Ing
    <2>3. \A j \in MetricsKids(req) : j.name = Ca(Metrics(req))
      BY DEF MetricsKids, Sts, Svc
    <2> QED
      BY <1>1, <2>1, <2>2, <2>3, DoomedObjects
  <1>3. k # Doomed(req, step)
    BY <1>1, <1>2, TouchedApart
  <1> QED
    BY <1>1, <1>3 DEF DeleteObject, TypeOK, ApiTypeOK

-----------------------------------------------------------------------------
\* What the cache says of the Services a pass only creates.

\* The objects that users leave alone.
LEMMA UserCalm ==
    ASSUME TypeOK, UserNext, Calm
    PROVE  UNCHANGED store
  BY UserEvolves DEF Calm

\* How a pass comes to build.
LEMMA BuildingSteps ==
    ASSUME [Next]_vars, pc' \in {"lookup", "write"}
    PROVE  UNCHANGED req /\ (pc \in {"lookup", "write"} \/ FetchCluster \/ AddFinalizer)
  BY DEF Next, vars, managerVars, workerVars, ManagerNext, Running, Reconcile, DeliverCluster,
         DeliverObjects, Dequeue, FetchNothing, FetchCluster, AddFinalizer,
         AddFinalizerConflict, SkipExisting, LookUp, RenderFails, Write, WriteRefused, Announce,
         DeleteObject, RemoveFinalizer, RemoveFinalizerConflict, CallFails, Restart, Answered,
         Advance, GoTo, Finish, Retry, Drop

\* How the cached copies change.
LEMMA CacheSteps ==
    ASSUME TypeOK, [Next]_vars, NEW n \in Clusters
    PROVE  crCache'[n] \in {crCache[n], cr[n]}
  BY DEF Next, vars, managerVars, ManagerNext, Running, Reconcile, DeliverCluster,
         DeliverObjects, Dequeue, FetchNothing, FetchCluster, AddFinalizer,
         AddFinalizerConflict, SkipExisting, LookUp, RenderFails, Write, WriteRefused, Announce,
         DeleteObject, RemoveFinalizer, RemoveFinalizerConflict, CallFails, Restart, TypeOK

\* A deletion that is settled stays so.
LEMMA SettledStays ==
    ASSUME Refining, [Next]_vars, NEW n \in Clusters, Settled(n), cr[n] # None,
           cr'[n] # None, cr'[n].uid = cr[n].uid
    PROVE  Settled(n)'
  <1>1. /\ TypeOK
        /\ crCache[n] # None /\ crCache[n].uid = cr[n].uid /\ crCache[n].deleting
        /\ ~(req = n /\ pc \in {"lookup", "write"})
    BY DEF Settled, Refining, Inductive
  <1>2. cr[n].deleting
    BY <1>1 DEF Refining, CacheKnows
  <1>3. crCache'[n] # None /\ crCache'[n].uid = cr'[n].uid /\ crCache'[n].deleting
    BY <1>1, <1>2, CacheSteps
  <1>4. ~(req' = n /\ pc' \in {"lookup", "write"})
    <2>1. SUFFICES ASSUME req' = n, pc' \in {"lookup", "write"}
                   PROVE  FALSE
      OBVIOUS
    <2>2. req = n /\ (FetchCluster \/ AddFinalizer)
      BY <1>1, <2>1, BuildingSteps
    <2>3. CASE FetchCluster
      BY <1>1, <2>1, <2>2, <2>3 DEF FetchCluster, Terminating
    <2>4. CASE AddFinalizer
      BY <1>2, <2>2, <2>4, GuardFinds
    <2> QED
      BY <2>2, <2>3, <2>4
  <1> QED
    BY <1>3, <1>4 DEF Settled

\* The uid of an object that ages.
LEMMA NextAges ==
    ASSUME Refining, [Next]_vars
    PROVE  \A n \in Clusters : Ages(n)
  <1>1. CASE UNCHANGED vars
    BY <1>1 DEF vars, apiVars, Ages
  <1> QED
    BY <1>1, UserAges, ManagerAges DEF Next, Refining, Inductive

LEMMA SeenStep ==
    ASSUME NamesUnambiguous, Refining, SeenReal, [Next /\ Calm]_vars
    PROVE  SeenReal'
  <1> SUFFICES ASSUME NEW n \in Clusters, cr'[n] # None, ~(Settled(n)'),
                      NEW k \in TrustedKids(n), seen'[k]
               PROVE  store'[k] # None
    BY DEF SeenReal
  <1>1. TypeOK /\ [Next]_vars /\ k \in Kids(n) /\ k \in Keys
    BY DEF Refining, Inductive, TrustedKids, Kids, Keys
  <1>2. CASE cr[n] = None
    <2>1. Next /\ Calm /\ cr' # cr
      BY <1>2 DEF vars, apiVars
    <2>2. ~seen[k]
      BY <1>2, <2>1 DEF Calm
    <2>3. UNCHANGED seen
      BY <2>1, ManagerAges DEF Next, managerVars, AddFinalizer, RemoveFinalizer
    <2> QED
      BY <2>2, <2>3
  <1>3. CASE cr[n] # None
    <2>1. cr'[n].uid = cr[n].uid
      BY <1>1, <1>3, NextAges DEF Ages, Older
    <2>2. ~Settled(n)
      BY <1>1, <1>3, <2>1, SettledStays
    <2>3. seen[k] => store[k] # None
      BY <1>3, <2>2 DEF SeenReal
    <2>4. CASE UserNext /\ Calm /\ UNCHANGED managerVars
      BY <1>1, <2>3, <2>4, UserCalm DEF managerVars
    <2>5. CASE Write
      <3>1. UNCHANGED seen
        BY <2>5 DEF Write
      <3> QED
        BY <1>1, <2>3, <2>5, <3>1, WriteStores
    <2>6. CASE DeleteObject
      <3>1. UNCHANGED seen
        BY <2>6 DEF DeleteObject
      <3>2. store'[k] = store[k]
        BY <1>1, <1>3, <2>2, <2>6, DeleteSpares
      <3> QED
        BY <2>3, <3>1, <3>2
    <2>7. CASE UNCHANGED store /\ (UNCHANGED seen \/ (seen'[k] => store[k] # None))
      BY <2>3, <2>7
    <2>8. ASSUME NEW kind \in Kinds, DeliverObjects(kind)
          PROVE  UNCHANGED store /\ (seen'[k] = seen[k] \/ (seen'[k] => store[k] # None))
      BY <1>1, <2>8 DEF DeliverObjects, apiVars
    <2>9. CASE Restart
      BY <1>1, <2>9 DEF Restart
    <2>10. \/ UserNext /\ Calm /\ UNCHANGED managerVars
           \/ Write \/ DeleteObject \/ Restart
           \/ \E kind \in Kinds : DeliverObjects(kind)
           \/ UNCHANGED <<store, seen>>
      BY DEF Next, vars, managerVars, apiVars, ManagerNext, Running, Reconcile, DeliverCluster,
             Dequeue, FetchNothing, FetchCluster, AddFinalizer, AddFinalizerConflict,
             SkipExisting, LookUp, RenderFails, WriteRefused, Announce, RemoveFinalizer,
             RemoveFinalizerConflict, CallFails
    <2> QED
      BY <2>3, <2>4, <2>5, <2>6, <2>7, <2>8, <2>9, <2>10
  <1> QED
    BY <1>2, <1>3

-----------------------------------------------------------------------------
\* What a pass is past stays in place.

\* A pass moves on: what it was at is done, too.
LEMMA AdvanceApplied ==
    ASSUME step \in StageIds, Advance,
           \A i \in StageIds : i < step \/ i = step => StageMade(i)'
    PROVE  PassApplied' /\ AnnouncedApplied'
  <1> DEFINE next == AfterStage(obj.spec, step)
  <1>1. UNCHANGED <<req, obj>> /\ (pc' = "announce" \/ pc' = "lookup")
        /\ (pc' = "announce" => next = Done) /\ (pc' = "lookup" => step' = next)
    BY DEF Advance, GoTo
  <1>2. ASSUME NEW i \in StageIds, i < next
        PROVE  StageMade(i)'
    <2>1. CASE Wanted(obj.spec, i)
      BY <1>2, <2>1, StagesPast
    <2>2. CASE ~Wanted(obj.spec, i)
      BY <1>1, <2>2 DEF StageMade
    <2> QED
      BY <2>1, <2>2
  <1>3. \A i \in StageIds : i < Done
    BY DEF StageIds, Done
  <1> HIDE DEF next
  <1>4. pc' = "announce" => \A i \in StageIds : StageMade(i)'
    BY <1>1, <1>2, <1>3
  <1>5. AnnouncedApplied'
    BY <1>4 DEF AnnouncedApplied, StageMade
  <1> QED
    BY <1>1, <1>2, <1>5 DEF PassApplied

\* A stage that is made is so as long as nobody touches its object.
LEMMA MadeStays ==
    ASSUME NEW i \in StageIds, StageMade(i), UNCHANGED <<req, obj>>,
           store'[Target(req, i)] = store[Target(req, i)]
    PROVE  StageMade(i)'
  BY DEF StageMade, Target

LEMMA AppliedStep ==
    ASSUME NamesUnambiguous, Refining, SeenReal, PassApplied, AnnouncedApplied,
           [Next /\ Calm]_vars
    PROVE  PassApplied' /\ AnnouncedApplied'
  <1>0. TypeOK
    BY DEF Refining, Inductive
  <1>1. CASE pc' \notin {"lookup", "write", "announce"}
    BY <1>1 DEF PassApplied, AnnouncedApplied
  <1>2. CASE UNCHANGED <<store, req, obj, step, pc>>
    BY <1>2 DEF PassApplied, StageMade, AnnouncedApplied
  <1>3. CASE pc' = "lookup" /\ step' = 1
    BY <1>3 DEF PassApplied, AnnouncedApplied, StageIds
  <1>4. CASE LookUp
    BY <1>4 DEF LookUp, apiVars, PassApplied, StageMade, AnnouncedApplied
  <1>5. CASE SkipExisting
    <2>1. /\ req \in Clusters /\ step \in StageIds /\ pc = "lookup"
          /\ UNCHANGED <<store, req, obj>> /\ Advance
          /\ ~Stage(req, step).update /\ seen[Stage(req, step).look]
      BY <1>0, <1>5, PassType DEF SkipExisting, apiVars, ThisStage, TypeOK, WorkerTypeOK,
                                  Advance, GoTo
    <2>2. Target(req, step) \in TrustedKids(req) /\ seen[Target(req, step)]
      BY <2>1, StagesTrusting
    <2>3. cr[req] # None /\ ~Settled(req)
      BY <2>1 DEF Refining, Inductive, PassGuarded, Guarded, Settled
    <2>4. store[Target(req, step)] # None
      BY <2>1, <2>2, <2>3 DEF SeenReal
    <2>5. StageMade(step)
      BY <2>1, <2>4 DEF StageMade
    <2>6. ASSUME NEW i \in StageIds, i < step \/ i = step
          PROVE  StageMade(i)'
      <3>1. StageMade(i)
        BY <2>1, <2>5, <2>6 DEF PassApplied
      <3> QED
        BY <2>1, <3>1, MadeStays
    <2> QED
      BY <2>1, <2>6, AdvanceApplied
  <1>6. CASE Write /\ pc' # "idle"
    <2>1. /\ req \in Clusters /\ obj \in CustomResources /\ step \in StageIds /\ pc = "write"
          /\ UNCHANGED <<req, obj>> /\ Advance
      BY <1>0, <1>6, WriteStores DEF Write, Answered, Retry, Drop, Advance, GoTo
    <2>2. ASSUME NEW i \in StageIds, i = step
          PROVE  StageMade(i)'
      BY <1>0, <1>6, <2>1, <2>2, WriteStores DEF StageMade, Target
    <2>3. ASSUME NEW i \in StageIds, i < step
          PROVE  StageMade(i)'
      <3>1. Target(req, i) # Target(req, step)
        BY <2>1, <2>3, TargetsDiffer DEF StageIds
      <3>2. Target(req, i) \in Keys
        BY <2>1, StageObjects DEF Target, Keys
      <3>3. store'[Target(req, i)] = store[Target(req, i)]
        BY <1>0, <1>6, <3>1, <3>2, WriteStores
      <3> QED
        BY <2>1, <2>3, <3>3, MadeStays DEF PassApplied
    <2>4. \A i \in StageIds : i < step \/ i = step => StageMade(i)'
      BY <2>2, <2>3
    <2> QED
      BY <2>1, <2>4, AdvanceApplied
  <1>7. CASE UserNext /\ Calm /\ UNCHANGED managerVars
    BY <1>0, <1>2, <1>7, UserCalm DEF managerVars, workerVars
  <1>8. \/ pc' \notin {"lookup", "write", "announce"}
        \/ UNCHANGED <<store, req, obj, step, pc>>
        \/ pc' = "lookup" /\ step' = 1
        \/ LookUp \/ SkipExisting \/ (Write /\ pc' # "idle")
        \/ UserNext /\ Calm /\ UNCHANGED managerVars
    BY DEF Next, vars, managerVars, workerVars, apiVars, ManagerNext, Running, Reconcile,
           DeliverCluster, DeliverObjects, Dequeue, FetchNothing, FetchCluster, AddFinalizer,
           AddFinalizerConflict, RenderFails, WriteRefused, Announce, DeleteObject,
           RemoveFinalizer, RemoveFinalizerConflict, CallFails, Restart, Answered, GoTo,
           Finish, Retry, Drop
  <1> QED
    BY <1>1, <1>2, <1>3, <1>4, <1>5, <1>6, <1>7, <1>8

-----------------------------------------------------------------------------
\* Hosts.

\* The hosts a server, or a Cassandra, is told of.
LEMMA RenderedHosts ==
    ASSUME NEW n, NEW spec
    PROVE  /\ Rendered(n, spec, 8).hosts =
                 {Es(n)} \cup (IF spec.server.metricsEnabled THEN {Ca(Metrics(n))} ELSE {})
           /\ Rendered(n, spec, 10).hosts = {As(n)}
  BY DEF Rendered, GenerateServerConfig, GenerateCassandraConfig

\* They are Services which an earlier stage of the same pass makes.
LEMMA HostStages ==
    ASSUME NEW n \in Clusters, NEW spec, NEW i \in {8, 10},
           NEW host \in Rendered(n, spec, i).hosts
    PROVE  /\ \E j \in StageIds : j < i /\ Wanted(spec, j) /\ Svc(host) = Target(n, j)
           /\ Svc(host) \in Kids(n) \cup MetricsKids(n)
  <1>1. PICK j \in {2, 7, 9} : j < i /\ Wanted(spec, j) /\ Svc(host) = Target(n, j)
    <2>1. Target(n, 2) = Svc(Es(n)) /\ Target(n, 7) = Svc(Ca(Metrics(n)))
          /\ Target(n, 9) = Svc(As(n))
      BY TargetNames
    <2>2. Wanted(spec, 2) /\ Wanted(spec, 9) /\ (spec.server.metricsEnabled => Wanted(spec, 7))
      BY DEF Wanted
    <2>3. CASE i = 8
      BY <2>1, <2>2, <2>3, RenderedHosts
    <2>4. CASE i = 10
      BY <2>1, <2>2, <2>4, RenderedHosts
    <2> QED
      BY <2>3, <2>4
  <1>2. j \in StageIds
    BY DEF StageIds
  <1> QED
    BY <1>1, <1>2, StageObjects DEF Target

\* The StatefulSets of the server and of the Cassandra belong to the environment.
LEMMA HostedKids ==
    ASSUME NEW n \in Clusters, NEW i \in {8, 10}
    PROVE  i \in StageIds /\ Target(n, i) \in Kids(n) /\ Target(n, i) \in Keys
  BY TargetNames DEF Kids, Keys, StageIds

\* Whatever a write leaves of these two, or makes of them.
LEMMA HostedWrite ==
    ASSUME NamesUnambiguous, TypeOK, Write, NEW n \in Clusters, NEW i \in {8, 10}
    PROVE  \/ store'[Target(n, i)] = store[Target(n, i)]
           \/ /\ n = req /\ i = step
              /\ store'[Target(n, i)].body = Rendered(n, obj.spec, i)
  <1>1. /\ req \in Clusters /\ step \in StageIds
        /\ store'[Target(req, step)].body = Rendered(req, obj.spec, step)
        /\ \A k \in Keys : k # Target(req, step) => store'[k] = store[k]
    BY WriteStores
  <1>2. i \in StageIds /\ Target(n, i) \in Kids(n) /\ Target(n, i) \in Keys
    BY HostedKids
  <1>3. CASE n # req
    <2>1. Target(req, step) \in Kids(req) \cup MetricsKids(req)
      BY <1>1, StageObjects DEF Target
    <2> QED
      BY <1>1, <1>2, <1>3, <2>1, Apart
  <1>4. CASE n = req /\ i # step
    BY <1>1, <1>2, <1>4, TargetsDiffer
  <1> QED
    BY <1>1, <1>3, <1>4

LEMMA StoreSteps ==
    ASSUME TypeOK, [Next /\ Calm]_vars
    PROVE  UNCHANGED store \/ Write \/ DeleteObject
  <1>1. CASE UserNext /\ Calm
    BY <1>1, UserCalm
  <1>2. CASE ManagerNext
    BY <1>2 DEF ManagerNext, Running, Reconcile, apiVars, DeliverCluster, DeliverObjects, Dequeue,
           FetchNothing, FetchCluster, AddFinalizer, AddFinalizerConflict, SkipExisting, LookUp,
           RenderFails, WriteRefused, Announce, RemoveFinalizer, RemoveFinalizerConflict,
           CallFails, Restart
  <1> QED
    BY <1>1, <1>2 DEF Next, vars, apiVars

LEMMA HostsOwnStep ==
    ASSUME NamesUnambiguous, TypeOK, HostsOwn, [Next /\ Calm]_vars
    PROVE  HostsOwn'
  <1> SUFFICES ASSUME NEW n \in Clusters, NEW i \in {8, 10}, store'[Target(n, i)] # None,
                      NEW host \in store'[Target(n, i)].body.hosts
               PROVE  Svc(host) \in Kids(n) \cup MetricsKids(n)
    BY DEF HostsOwn, Target
  <1>1. CASE store'[Target(n, i)] = store[Target(n, i)]
    BY <1>1 DEF HostsOwn
  <1>2. CASE Write
    BY <1>1, <1>2, HostedWrite, HostStages
  <1>3. CASE DeleteObject
    BY <1>1, <1>3, HostedKids DEF DeleteObject, TypeOK, ApiTypeOK
  <1> QED
    BY <1>1, <1>2, <1>3, StoreSteps

LEMMA HostsResolveStep ==
    ASSUME NamesUnambiguous, Refining, PassApplied, HostsOwn, HostsResolve,
           [Next /\ Calm]_vars
    PROVE  HostsResolve'
  <1> SUFFICES ASSUME NEW n \in Clusters, cr'[n] # None, ~cr'[n].deleting,
                      NEW i \in {8, 10}, store'[Target(n, i)] # None,
                      NEW host \in store'[Target(n, i)].body.hosts
               PROVE  store'[Svc(host)] # None
    BY DEF HostsResolve, Live, Target
  <1>0. TypeOK /\ [Next]_vars
    BY DEF Refining, Inductive
  <1>1. i \in StageIds /\ Target(n, i) \in Kids(n) /\ Target(n, i) \in Keys
    BY HostedKids
  <1>2. Live(n) \/ cr[n] = None
    BY <1>0, NextAges DEF Ages, Older, Live
  <1>3. cr[n] = None => store[Target(n, i)] = None
    BY <1>1 DEF Refining, Inductive, NoOrphans, Guarded
  <1>4. Live(n) /\ store[Target(n, i)] # None =>
            \A h \in store[Target(n, i)].body.hosts : store[Svc(h)] # None
    BY DEF HostsResolve
  <1>5. CASE UNCHANGED store
    BY <1>2, <1>3, <1>4, <1>5
  <1>6. CASE Write
    <2>1. /\ req \in Clusters /\ step \in StageIds /\ pc = "write"
          /\ \A k \in Keys : store[k] # None => store'[k] # None
      BY <1>0, <1>6, WriteStores DEF Write
    <2>2. CASE store'[Target(n, i)] = store[Target(n, i)]
      <3>1. Live(n) /\ store[Svc(host)] # None
        BY <1>2, <1>3, <1>4, <2>2
      <3>2. Svc(host) \in Keys
        BY <2>2 DEF HostsOwn, Keys
      <3> QED
        BY <2>1, <3>1, <3>2
    <2>3. CASE n = req /\ i = step /\ store'[Target(n, i)].body = Rendered(n, obj.spec, i)
      <3>1. PICK j \in StageIds : j < i /\ Wanted(obj.spec, j) /\ Svc(host) = Target(n, j)
        BY <2>3, HostStages
      <3>2. store[Svc(host)] # None
        BY <2>1, <2>3, <3>1 DEF PassApplied, StageMade
      <3>3. Svc(host) \in Keys
        BY <3>1, StageObjects DEF Target, Keys
      <3> QED
        BY <2>1, <3>2, <3>3
    <2> QED
      BY <1>0, <1>6, <2>2, <2>3, HostedWrite
  <1>7. CASE DeleteObject
    <2>1. \A k \in Keys : store[k] = None => store'[k] = None
      BY <1>0, <1>7 DEF DeleteObject, TypeOK, ApiTypeOK
    <2>2. Live(n) /\ store[Target(n, i)] # None
      BY <1>1, <1>2, <1>3, <2>1
    <2>3. \A k \in Kids(n) \cup MetricsKids(n) : store'[k] = store[k]
      BY <1>0, <1>7, <2>2, DeleteSpares, DeleteSparesMetrics
    <2> QED
      BY <1>1, <1>4, <2>2, <2>3 DEF HostsOwn
  <1> QED
    BY <1>0, <1>5, <1>6, <1>7, StoreSteps

-----------------------------------------------------------------------------
\* The queue.

\* How the cache comes to show what it shows: with a copy whose spec is new the
\* cluster is put on the queue.
LEMMA CacheQueues ==
    ASSUME TypeOK, [Next]_vars, NEW n \in Clusters, crCache'[n] # None
    PROVE  \/ crCache'[n] = crCache[n]
           \/ n \in queue'
           \/ crCache'[n] = cr[n] /\ SameSpec(crCache[n], cr[n])
  <1>1. ASSUME NEW m \in Clusters, DeliverCluster(m)
        PROVE  \/ crCache'[n] = crCache[n]
               \/ n \in queue'
               \/ crCache'[n] = cr[n] /\ SameSpec(crCache[n], cr[n])
    BY <1>1 DEF DeliverCluster, Passes, SameSpec, TypeOK
  <1>2. CASE Restart
    BY <1>2 DEF Restart
  <1>3. UNCHANGED crCache \/ Restart \/ \E m \in Clusters : DeliverCluster(m)
    BY DEF Next, vars, managerVars, ManagerNext, Running, Reconcile, DeliverObjects, Dequeue,
           FetchNothing, FetchCluster, AddFinalizer, AddFinalizerConflict, SkipExisting,
           LookUp, RenderFails, Write, WriteRefused, Announce, DeleteObject, RemoveFinalizer,
           RemoveFinalizerConflict, CallFails
  <1> QED
    BY <1>1, <1>2, <1>3

\* How a pass comes to work from the copy it works from.
LEMMA PassSteps ==
    ASSUME [Next]_vars, pc' \notin {"idle", "fetch"}
    PROVE  \/ pc \notin {"idle", "fetch"} /\ UNCHANGED <<req, obj>> /\ queue \subseteq queue'
           \/ FetchCluster
           \/ AddFinalizer /\ obj' = cr'[req] /\ UNCHANGED <<req, crCache>>
  BY DEF Next, vars, managerVars, workerVars, ManagerNext, Running, Reconcile, DeliverCluster,
         DeliverObjects, Dequeue, FetchNothing, FetchCluster, AddFinalizer,
         AddFinalizerConflict, SkipExisting, LookUp, RenderFails, Write, WriteRefused, Announce,
         DeleteObject, RemoveFinalizer, RemoveFinalizerConflict, CallFails, Restart, Answered,
         Advance, GoTo, Finish, Retry, Drop

LEMMA PassQueuedStep ==
    ASSUME Refining, Refining', PassQueued, [Next]_vars
    PROVE  PassQueued'
  <1> SUFFICES ASSUME pc' \notin {"idle", "fetch"}, crCache'[req'] # None
               PROVE  SameSpec(obj', crCache'[req']) \/ req' \in queue'
    BY DEF PassQueued, SameSpec
  <1>0. TypeOK /\ TypeOK'
    BY DEF Refining, Inductive
  <1>1. CASE pc \notin {"idle", "fetch"} /\ UNCHANGED <<req, obj>> /\ queue \subseteq queue'
    <2>1. req \in Clusters
      BY <1>0, <1>1, PassType
    <2>2. crCache[req] # None => SameSpec(obj, crCache[req]) \/ req \in queue
      BY <1>1 DEF PassQueued
    <2> QED
      BY <1>0, <1>1, <2>1, <2>2, CacheQueues DEF SameSpec
  <1>2. CASE FetchCluster
    BY <1>2 DEF FetchCluster, SameSpec
  <1>3. CASE AddFinalizer /\ obj' = cr'[req] /\ UNCHANGED <<req, crCache>>
    <2>1. ManagerNext /\ req \in Clusters
      BY <1>0, <1>3, PassType DEF ManagerNext, Running, Reconcile, AddFinalizer
    <2>2. crCache[req] = cr[req] /\ cr[req] # None
      BY <1>3 DEF AddFinalizer, IsCurrent, Refining, PassKnows
    <2>3. cr'[req] # None
      <3>1. obj' \in CustomResources
        BY <1>0 DEF TypeOK, WorkerTypeOK
      <3> QED
        BY <1>3, <3>1, ApiAssumption
    <2>4. cr'[req].uid = cr[req].uid /\ cr'[req].gen = cr[req].gen
      BY <2>1, <2>3, ManagerAges
    <2> QED
      BY <1>3, <2>2, <2>3, <2>4 DEF SameSpec
  <1> QED
    BY <1>1, <1>2, <1>3, PassSteps

-----------------------------------------------------------------------------
\* Work.

\* The cache shows the newest spec of n, and the environment is not what it asks for.
Pending(n) == Live(n) /\ SameSpec(crCache[n], cr[n]) /\ ~Applied(n)

Cared(n) == n \in queue \/ (req = n /\ (pc = "fetch" \/ SameSpec(obj, cr[n])))

\* A cluster that rests keeps what is pending.
LEMMA PendingRests ==
    ASSUME NEW n \in Clusters, Pending(n)', cr[n] # None, ~cr[n].deleting,
           cr'[n].uid = cr[n].uid, cr'[n].gen = cr[n].gen, cr'[n].spec = cr[n].spec,
           SameSpec(crCache[n], cr[n]),
           \A k \in Kids(n) \cup MetricsKids(n) : store'[k] = store[k]
    PROVE  Pending(n)
  <1>1. Applied(n) => Applied(n)'
    BY StageObjects DEF Applied, Wants, Target
  <1> QED
    BY <1>1 DEF Pending, Live

\* A pass that has come to its end has applied the spec it worked from.
LEMMA AnnounceApplied ==
    ASSUME GenerationsFollow, AnnouncedApplied, pc = "announce", SameSpec(obj, cr[req])
    PROVE  Applied(req)
  <1>1. obj.spec = cr[req].spec
    BY DEF GenerationsFollow, Traces, SameSpec
  <1>2. \A i \in StageIds : StageMade(i)
    BY DEF AnnouncedApplied, StageMade
  <1> SUFFICES ASSUME NEW i \in StageIds, Wanted(obj.spec, i)
               PROVE  /\ store[Target(req, i)] # None
                      /\ Stage(req, i).update =>
                            store[Target(req, i)].body = Rendered(req, obj.spec, i)
    BY <1>1 DEF Applied, Wants
  <1>3. /\ store[Target(req, i)] # None
        /\ Stage(req, i).update =>
              store[Target(req, i)] = [uid |-> obj.uid, gen |-> obj.gen,
                                       body |-> Rendered(req, obj.spec, i)]
    BY <1>2 DEF StageMade
  <1> QED
    BY <1>3

\* A pass under way, once the cache shows the newest spec.
LEMMA PassCares ==
    ASSUME PassQueued, pc \notin {"idle", "fetch"}, SameSpec(crCache[req], cr[req])
    PROVE  req \in queue \/ SameSpec(obj, cr[req])
  BY DEF PassQueued, SameSpec

LEMMA UserWork ==
    ASSUME Refining, GenerationsFollow, NoLostWork, UserNext, Calm, UNCHANGED managerVars,
           NEW n \in Clusters, Pending(n)'
    PROVE  Cared(n)'
  <1>0. TypeOK /\ UNCHANGED <<store, crCache, queue, pc, req, obj>>
    BY UserCalm DEF Refining, Inductive, managerVars, workerVars
  <1>1. /\ cr'[n] # None /\ ~cr'[n].deleting /\ crCache[n] # None
        /\ crCache[n].uid = cr'[n].uid /\ crCache[n].gen = cr'[n].gen
    BY <1>0 DEF Pending, Live, SameSpec
  <1>2. crCache[n].uid <= rev /\ crCache[n] \in CustomResources /\ rev \in Nat
    BY <1>0, <1>1 DEF Refining, UidsKnown, TypeOK, ApiTypeOK
  <1>3. cr'[n].uid # rev + 1
    BY <1>1, <1>2 DEF CustomResources
  <1>4. /\ cr[n] # None /\ cr'[n].uid = cr[n].uid /\ cr'[n].gen = cr[n].gen
        /\ cr'[n].spec = cr[n].spec /\ ~cr[n].deleting
    <2>1. CASE cr'[n] = cr[n]
      BY <1>1, <2>1
    <2>2. CASE cr[n] # None /\ Older(cr[n], cr'[n])
      <3>1. crCache[n].gen <= cr[n].gen /\ crCache[n].gen \in Nat /\ cr[n].gen \in Nat
        BY <1>0, <1>1, <1>2, <2>2 DEF GenerationsFollow, Traces, Older, TypeOK, ApiTypeOK,
                                      CustomResources
      <3>2. cr'[n].gen # cr[n].gen + 1
        BY <1>1, <3>1
      <3> QED
        BY <1>1, <2>2, <3>2 DEF Older
    <2> QED
      BY <1>0, <1>1, <1>3, <2>1, <2>2, UserAges DEF Ages
  <1>5. SameSpec(crCache[n], cr[n])
    BY <1>1, <1>4 DEF SameSpec
  <1>6. Pending(n)
    BY <1>0, <1>4, <1>5, PendingRests
  <1>7. Cared(n)
    BY <1>6 DEF NoLostWork, Pending, Cared
  <1> QED
    BY <1>0, <1>1, <1>4, <1>7 DEF Cared, SameSpec

\* A name leaves the queue only for the worker.
LEMMA QueueKeeps ==
    ASSUME TypeOK, ManagerNext, NEW n \in Clusters, n \in queue, cr[n] # None
    PROVE  n \in queue' \/ (req' = n /\ pc' = "fetch")
  <1>1. ASSUME NEW m \in Clusters, Dequeue(m)
        PROVE  n \in queue' \/ (req' = n /\ pc' = "fetch")
    BY <1>1 DEF Dequeue
  <1>2. CASE Restart
    BY <1>2 DEF Restart
  <1>3. queue \subseteq queue' \/ Restart \/ \E m \in Clusters : Dequeue(m)
    BY DEF ManagerNext, Running, Reconcile, DeliverCluster, DeliverObjects, FetchNothing,
           FetchCluster, AddFinalizer, AddFinalizerConflict, SkipExisting, LookUp, RenderFails,
           Write, WriteRefused, Announce, DeleteObject, RemoveFinalizer,
           RemoveFinalizerConflict, CallFails, Answered, Advance, GoTo, Finish, Retry, Drop
  <1> QED
    BY <1>1, <1>2, <1>3

\* How a pass ends: with an error, which puts its name on the queue, or in one of
\* four ways.
LEMMA PassEnds ==
    ASSUME ManagerNext, pc # "idle"
    PROVE  \/ req' = req \/ req \in queue'
           \/ FetchNothing \/ Announce \/ RemoveFinalizer \/ Restart
  BY DEF ManagerNext, Running, Reconcile, workerVars, DeliverCluster, DeliverObjects, Dequeue,
         FetchCluster, AddFinalizer, AddFinalizerConflict, SkipExisting, LookUp, RenderFails,
         Write, WriteRefused, DeleteObject, RemoveFinalizerConflict, CallFails, Answered,
         Advance, GoTo, Retry, Drop

\* The end of a pass without an error leaves nothing pending.
LEMMA EndsDone ==
    ASSUME Refining, Tracing, PassQueued, AnnouncedApplied, ManagerNext,
           NEW n \in Clusters, n = req, Pending(n)', FetchNothing \/ Announce \/ RemoveFinalizer
    PROVE  n \in queue'
  <1>0. /\ TypeOK /\ cr'[n] # None /\ ~cr'[n].deleting /\ crCache'[n] # None
        /\ crCache'[n].uid = cr'[n].uid /\ crCache'[n].gen = cr'[n].gen
    BY DEF Refining, Inductive, Pending, Live, SameSpec
  <1>1. CASE FetchNothing
    <2>1. UNCHANGED <<cr, crCache>>
      BY <1>1 DEF FetchNothing, apiVars
    <2>2. crCache[n].deleting
      BY <1>0, <1>1, <2>1 DEF FetchNothing, Terminating
    <2> QED
      BY <1>0, <2>1, <2>2 DEF Refining, CacheKnows
  <1>2. CASE Announce
    <2>1. UNCHANGED <<cr, store, crCache, queue>> /\ pc = "announce"
      BY <1>2 DEF Announce, apiVars, Finish
    <2>2. SameSpec(crCache[n], cr[n]) /\ ~cr[n].deleting
      BY <1>0, <2>1 DEF SameSpec
    <2>3. Pending(n)
      BY <1>0, <2>1, <2>2, PendingRests
    <2>4. ~Applied(n)
      BY <2>3 DEF Pending
    <2> QED
      BY <2>1, <2>2, <2>4, PassCares, AnnounceApplied DEF Tracing
  <1>3. CASE RemoveFinalizer
    <2>1. pc = "release" /\ cr[n] # None /\ obj \in CustomResources /\ cr[n].rv = obj.rv
      BY <1>0, <1>3, PassType DEF RemoveFinalizer, IsCurrent
    <2>2. obj = cr[n] /\ obj.deleting
      BY <2>1, ApiAssumption DEF Refining, Inductive, VersionsFollow, Follows, PassGuarded
    <2>3. Ages(n)
      BY ManagerAges
    <2> QED
      BY <1>0, <2>1, <2>2, <2>3 DEF Ages, Older
  <1> QED
    BY <1>1, <1>2, <1>3

LEMMA OthersRest ==
    ASSUME NamesUnambiguous, Refining, ManagerNext, NEW n \in Clusters, n # req
    PROVE  /\ cr'[n] = cr[n]
           /\ \A k \in Kids(n) \cup MetricsKids(n) : store'[k] = store[k]
  <1>1. TypeOK /\ n \in Clusters \ {req}
    BY DEF Refining, Inductive
  <1>2. UNCHANGED cr \/ AddFinalizer \/ RemoveFinalizer
    BY ManagerAges
  <1>3. cr'[n] = cr[n]
    BY <1>1, <1>2 DEF AddFinalizer, RemoveFinalizer, Update, TypeOK, ApiTypeOK
  <1> QED
    BY <1>1, <1>3, OthersStay

LEMMA ManagerWork ==
    ASSUME NamesUnambiguous, Refining, Refining', Tracing, PassQueued, PassQueued',
           AnnouncedApplied, NoLostWork, ManagerNext, NEW n \in Clusters, Pending(n)'
    PROVE  Cared(n)'
  <1>0. TypeOK /\ [Next]_vars
    BY DEF Refining, Inductive, Next
  <1>1. /\ cr'[n] # None /\ ~cr'[n].deleting /\ crCache'[n] # None
        /\ crCache'[n].uid = cr'[n].uid /\ crCache'[n].gen = cr'[n].gen
    BY DEF Pending, Live, SameSpec
  <1>2. CASE n \in queue'
    BY <1>2 DEF Cared
  <1>3. CASE n \notin queue' /\ req' = n
    <2>1. pc' # "idle"
      BY <1>3, ClustersAssumption DEF Refining, Inductive, TypeOK, WorkerTypeOK
    <2>2. CASE pc' = "fetch"
      BY <1>3, <2>2 DEF Cared
    <2>3. CASE pc' # "fetch"
      <3>1. SameSpec(obj', crCache'[n])
        BY <1>1, <1>3, <2>1, <2>3 DEF PassQueued, SameSpec
      <3> QED
        BY <1>1, <1>3, <3>1 DEF Cared, SameSpec
    <2> QED
      BY <2>1, <2>2, <2>3
  <1>4. CASE n \notin queue' /\ req' # n /\ req = n
    <2>1. pc # "idle"
      BY <1>0, <1>4, ClustersAssumption DEF TypeOK, WorkerTypeOK
    <2>2. CASE Restart
      BY <1>1, <1>4, <2>2 DEF Restart
    <2> QED
      BY <1>4, <2>1, <2>2, PassEnds, EndsDone
  <1>5. CASE n \notin queue' /\ req' # n /\ req # n
    <2>1. /\ cr'[n] = cr[n]
          /\ \A k \in Kids(n) \cup MetricsKids(n) : store'[k] = store[k]
      BY <1>5, OthersRest
    <2>2. SameSpec(crCache[n], cr[n])
      BY <1>0, <1>1, <1>5, <2>1, CacheQueues DEF SameSpec
    <2>3. Pending(n)
      BY <1>1, <2>1, <2>2, PendingRests
    <2>4. n \in queue
      BY <1>5, <2>3 DEF NoLostWork, Pending
    <2> QED
      BY <1>0, <1>1, <1>5, <2>1, <2>4, QueueKeeps
  <1> QED
    BY <1>2, <1>3, <1>4, <1>5

LEMMA WorkStep ==
    ASSUME NamesUnambiguous, Refining, Refining', Tracing, PassQueued, PassQueued',
           AnnouncedApplied, NoLostWork, [Next /\ Calm]_vars
    PROVE  NoLostWork'
  <1> SUFFICES ASSUME NEW n \in Clusters, Pending(n)'
               PROVE  Cared(n)'
    BY DEF NoLostWork, Pending, Cared
  <1>1. CASE UNCHANGED vars
    <2>1. UNCHANGED <<cr, store, crCache, queue, pc, req, obj>>
      BY <1>1 DEF vars, apiVars, managerVars, workerVars
    <2>2. Pending(n)
      BY <2>1 DEF Pending, Live, SameSpec, Applied, Wants, Target
    <2> QED
      BY <2>1, <2>2 DEF NoLostWork, Pending, Cared, SameSpec
  <1>2. CASE UserNext /\ Calm /\ UNCHANGED managerVars
    BY <1>2, UserWork DEF Tracing
  <1>3. CASE ManagerNext
    BY <1>3, ManagerWork
  <1> QED
    BY <1>1, <1>2, <1>3 DEF Next

-----------------------------------------------------------------------------
\* All together.

LEMMA WorkingInit == Init => Working
  <1> SUFFICES ASSUME Init
               PROVE  Working
    OBVIOUS
  <1>1. /\ \A n \in Clusters : cr[n] = None /\ crCache[n] = None
        /\ \A k \in Keys : store[k] = None
        /\ pc = "idle"
    BY DEF Init, ApiInit
  <1>2. PassUidKnown /\ GenerationsFollow /\ SeenReal /\ PassApplied /\ PassQueued
    BY <1>1 DEF PassUidKnown, GenerationsFollow, Traces, SeenReal, PassApplied, PassQueued
  <1>3. HostsOwn
    BY <1>1, HostedKids DEF HostsOwn
  <1>4. AnnouncedApplied /\ HostsResolve /\ NoLostWork
    BY <1>1 DEF AnnouncedApplied, HostsResolve, NoLostWork, Live
  <1> QED
    BY <1>2, <1>3, <1>4, RefiningInit DEF Working

LEMMA TracingStep ==
    ASSUME Refining, Refining', Tracing, [Next]_vars
    PROVE  Tracing'
  <1>1. CASE UNCHANGED vars
    BY <1>1 DEF vars, apiVars, managerVars, workerVars, Tracing, PassUidKnown,
                GenerationsFollow, Traces
  <1> QED
    BY <1>1, UserTraces, ManagerTraces DEF Next

LEMMA WorkingStep ==
    ASSUME NamesUnambiguous
    PROVE  Working /\ [Next /\ Calm]_vars => Working'
  <1> SUFFICES ASSUME Working, [Next /\ Calm]_vars
               PROVE  Working'
    OBVIOUS
  <1>1. Refining /\ Tracing /\ TypeOK /\ [Next]_vars
    BY DEF Working, Tracing, Refining, Inductive
  <1>2. Refining'
    BY <1>1, RefiningStep
  <1>3. Tracing'
    BY <1>1, <1>2, TracingStep
  <1>4. SeenReal'
    BY <1>1, SeenStep DEF Working
  <1>5. PassApplied' /\ AnnouncedApplied'
    BY <1>1, AppliedStep DEF Working
  <1>6. HostsOwn' /\ HostsResolve'
    BY <1>1, HostsOwnStep, HostsResolveStep DEF Working
  <1>7. PassQueued'
    BY <1>1, <1>2, PassQueuedStep DEF Working
  <1>8. NoLostWork'
    BY <1>1, <1>2, <1>7, WorkStep DEF Working
  <1> QED
    BY <1>2, <1>3, <1>4, <1>5, <1>6, <1>7, <1>8 DEF Working, Tracing

\* While nobody interferes, the invariant holds: what a pass is past is in place,
\* and whatever makes a pass out of date puts its cluster on the queue (Reconcile,
\* lines 144-480, next to the watches of SetupWithManager, lines 502-512).
THEOREM WorkingAlways ==
    ASSUME NamesUnambiguous
    PROVE  CalmSpec => []Working
  BY WorkingInit, WorkingStep, PTL DEF CalmSpec

\* "Environment created successfully" is true: every object that the spec asks for
\* exists, and all but the Services that are only created are rendered from the very
\* copy the pass read, whatever users did to it meanwhile (Reconcile, lines 144-480).
THEOREM AnnouncedTrue ==
    ASSUME NamesUnambiguous
    PROVE  CalmSpec => []AnnouncedApplied
  <1>1. Working => AnnouncedApplied
    BY DEF Working
  <1> QED
    BY <1>1, WorkingAlways, PTL

\* The AxonOps server and the Cassandra of a live cluster are never deployed before
\* the Services their environment variables name (the order of steps 1 to 5 of
\* Reconcile, lines 144-455).
THEOREM HostsAlwaysResolve ==
    ASSUME NamesUnambiguous
    PROVE  CalmSpec => []HostsResolve
  <1>1. Working => HostsResolve
    BY DEF Working
  <1> QED
    BY <1>1, WorkingAlways, PTL

\* No wake-up is lost, for any number of clusters, edits, failed calls and restarts
\* of the manager: a live cluster whose newest spec the cache holds and the objects
\* do not show is queued, or a pass with that spec is under way (SetupWithManager,
\* lines 502-512, and every "return ..., err" of Reconcile).
THEOREM WorkNeverLost ==
    ASSUME NamesUnambiguous
    PROVE  CalmSpec => []NoLostWork
  <1>1. Working => NoLostWork
    BY DEF Working
  <1> QED
    BY <1>1, WorkingAlways, PTL
=============================================================================
