---------------------------- MODULE OrphanProofs ----------------------------
(***************************************************************************)
(* Proof that no object of an environment exists outside the care of the   *)
(* finalizer.  The inductive invariant is Inductive of OperatorProperties. *)
(***************************************************************************)
EXTENDS VersionProofs, SequenceTheorems

-----------------------------------------------------------------------------
\* Names.

LEMMA Singleton ==
    ASSUME NEW S, NEW p \in S
    PROVE  <<p>> \in Seq(S) /\ Len(<<p>>) = 1 /\ <<p>>[1] = p
  OBVIOUS

\* Gluing a segment to a name loses nothing.
LEMMA Gluing ==
    ASSUME NEW S, NEW p \in S, NEW q \in S, NEW n \in Seq(S), NEW m \in Seq(S),
           <<p>> \o n = <<q>> \o m
    PROVE  p = q /\ n = m
  <1>1. p = q
    <2>1. (<<p>> \o n)[1] = p
      BY Singleton, ConcatProperties, LenProperties
    <2>2. (<<q>> \o m)[1] = q
      BY Singleton, ConcatProperties, LenProperties
    <2> QED
      BY <2>1, <2>2
  <1>2. <<p>> \in Seq(S) /\ <<p>> \o n = <<p>> \o m
    BY <1>1, Singleton
  <1>3. \A s, t, v \in Seq(S) : s \o t = s \o v => t = v
    BY ConcatSimplifications
  <1> QED
    BY <1>1, <1>2, <1>3

LEMMA ClusterNames ==
    ASSUME NEW n \in Clusters
    PROVE  n \in Seq(STRING) /\ Metrics(n) \in Seq(STRING)
  <1>1. n \in Seq(STRING)
    BY ClustersAssumption
  <1>2. <<"metrics">> \in Seq(STRING)
    <2>1. "metrics" \in STRING
      BY PrefixesAssumption DEF Prefixes
    <2> QED
      BY <2>1, Singleton
  <1> QED
    BY <1>1, <1>2, ConcatProperties DEF Metrics

\* What the names of the objects of an environment look like.
LEMMA KidNames ==
    ASSUME NEW n, NEW k \in Kids(n)
    PROVE  \E p \in STRING : k.name = <<p>> \o n
  <1>1. \E p \in {"es", "ds", "as", "ca"} : k.name = <<p>> \o n
    BY DEF Kids, Sts, Svc, Dep, Ing, Es, Ds, As, Ca
  <1>2. "es" \in STRING /\ "ds" \in STRING /\ "as" \in STRING /\ "ca" \in STRING
    BY PrefixesAssumption DEF Prefixes
  <1> QED
    BY <1>1, <1>2

LEMMA MetricsKidNames ==
    ASSUME NEW n, NEW k \in MetricsKids(n)
    PROVE  k.name = <<"ca">> \o Metrics(n)
  BY DEF MetricsKids, Sts, Svc, Ca

\* What a pass for n writes is no object of another environment.
LEMMA Apart ==
    ASSUME NamesUnambiguous, NEW n \in Clusters, NEW m \in Clusters, n # m,
           NEW k \in Kids(n) \cup MetricsKids(n)
    PROVE  k \notin Kids(m)
  <1> SUFFICES ASSUME k \in Kids(m)
               PROVE  FALSE
    OBVIOUS
  <1>1. PICK q \in STRING : k.name = <<q>> \o m
    BY KidNames
  <1>2. CASE k \in Kids(n)
    <2>1. PICK p \in STRING : k.name = <<p>> \o n
      BY <1>2, KidNames
    <2> QED
      BY <1>1, <2>1, Gluing, ClusterNames
  <1>3. CASE k \in MetricsKids(n)
    <2>1. k.name = <<"ca">> \o Metrics(n)
      BY <1>3, MetricsKidNames
    <2>2. m = Metrics(n)
      <3>1. "ca" \in STRING /\ <<"ca">> \o Metrics(n) = <<q>> \o m
        BY <1>1, <2>1, PrefixesAssumption DEF Prefixes
      <3>2. m \in Seq(STRING) /\ Metrics(n) \in Seq(STRING)
        BY ClusterNames
      <3> QED
        BY <3>1, <3>2, Gluing
    <2> QED
      BY <2>2 DEF NamesUnambiguous
  <1> QED
    BY <1>2, <1>3

\* The deletions of a teardown, but for those of the metrics cluster, are the
\* objects of the environment.
LEMMA KidsDoomed ==
    ASSUME NEW n \in Clusters
    PROVE  /\ \A k \in Kids(n) : \E i \in KidIds : k = Doomed(n, i)
           /\ \A i \in KidIds : Doomed(n, i) \in Keys
  <1>1. KidIds = {1, 2, 3, 4, 5, 6, 9, 10, 11}
    BY DEF KidIds, StageIds
  <1>2. /\ Doomed(n, 1) = Sts(Es(n)) /\ Doomed(n, 2) = Svc(Es(n))
        /\ Doomed(n, 3) = Sts(Ca(n)) /\ Doomed(n, 4) = Svc(Ca(n))
        /\ Doomed(n, 5) = Sts(As(n)) /\ Doomed(n, 6) = Svc(As(n))
        /\ Doomed(n, 9) = Dep(Ds(n)) /\ Doomed(n, 10) = Svc(Ds(n))
        /\ Doomed(n, 11) = Ing(Ds(n))
    BY DEF Doomed
  <1>3. Kids(n) = {Doomed(n, i) : i \in KidIds}
    BY <1>1, <1>2 DEF Kids
  <1> QED
    BY <1>3 DEF Keys

-----------------------------------------------------------------------------
\* The steps, by what they do to the state the invariant is about.

\* Users and other controllers.
LEMMA UserStep ==
    ASSUME Inductive, Versioned', UserNext, UNCHANGED managerVars
    PROVE  Inductive'
  <1>1. TypeOK /\ UNCHANGED <<crCache, pc, req, obj, step>>
    BY DEF Inductive, managerVars, workerVars
  <1>2. /\ \A n \in Clusters : Moved(n) /\ (Guarded(cr'[n]) <=> Guarded(cr[n]))
        /\ \A k \in Keys : store'[k] \in {store[k], None}
    BY <1>1, UserMoves
  <1>3. TypeOK' /\ VersionsFollow'
    BY DEF Versioned
  <1>4. CacheGuarded'
    BY <1>1, <1>2 DEF Inductive, CacheGuarded, Guarded
  <1>5. PassGuarded'
    <2>1. pc \in {"lookup", "write"} => req \in Clusters
      BY <1>1, PassType
    <2> QED
      BY <1>1, <1>2, <2>1 DEF Inductive, PassGuarded, Guarded
  <1>6. TornDown'
    <2>1. pc \in {"teardown", "release"} => req \in Clusters
      BY <1>1, PassType
    <2> QED
      BY <1>1, <1>2, <2>1, KidsDoomed DEF Inductive, TornDown
  <1>7. NoOrphans'
    BY <1>2 DEF Inductive, NoOrphans, Guarded, Keys
  <1> QED
    BY <1>3, <1>4, <1>5, <1>6, <1>7 DEF Inductive

\* The watch on AxonOpsCassandra objects.
LEMMA DeliverStep ==
    ASSUME Inductive, Versioned', NEW n \in Clusters, DeliverCluster(n)
    PROVE  Inductive'
  <1>1. /\ TypeOK /\ UNCHANGED <<cr, store, rev, pc, req, obj, step>>
        /\ crCache' = [crCache EXCEPT ![n] = cr[n]]
    BY DEF Inductive, DeliverCluster, apiVars, workerVars
  <1>2. \A m \in Clusters : crCache'[m] = IF m = n THEN cr[n] ELSE crCache[m]
    BY <1>1 DEF TypeOK
  <1>3. TypeOK' /\ VersionsFollow'
    BY DEF Versioned
  <1>4. CacheGuarded'
    BY <1>1, <1>2 DEF Inductive, CacheGuarded, Guarded
  <1>5. PassGuarded'
    <2>1. pc \in {"teardown", "release"} => req \in Clusters /\ obj \in CustomResources
      BY <1>1, PassType
    <2>2. pc \in {"teardown", "release"} => Follows(obj, cr[req])
      BY DEF Inductive, VersionsFollow
    <2>3. obj \in CustomResources => obj # None
      BY ApiAssumption
    <2> QED
      BY <1>1, <1>2, <2>1, <2>2, <2>3 DEF Inductive, PassGuarded, Follows, Guarded
  <1> QED
    BY <1>1, <1>3, <1>4, <1>5 DEF Inductive, TornDown, NoOrphans, Guarded

\* A step that ends a pass, or begins one, and writes nothing.
LEMMA RestingStep ==
    ASSUME Inductive, Versioned', UNCHANGED <<cr, store, rev>>, crCache' \in {crCache, cr},
           pc' \in {"idle", "fetch"}
    PROVE  Inductive'
  <1>1. TypeOK' /\ VersionsFollow'
    BY DEF Versioned
  <1>2. CacheGuarded'
    BY DEF Inductive, CacheGuarded, Guarded
  <1> QED
    BY <1>1, <1>2 DEF Inductive, PassGuarded, TornDown, NoOrphans, Guarded

\* A pass finds the object in the cache.
LEMMA FetchStep ==
    ASSUME Inductive, Versioned', FetchCluster
    PROVE  Inductive'
  <1>1. /\ TypeOK /\ UNCHANGED <<cr, store, rev, crCache, req>>
        /\ req \in Clusters /\ crCache[req] # None /\ obj' = crCache[req]
    BY DEF Inductive, FetchCluster, apiVars, TypeOK, WorkerTypeOK
  <1>2. \/ obj'.deleting /\ pc' = "teardown" /\ step' = 1
        \/ ~obj'.deleting /\ Guarded(obj') /\ pc' = "lookup"
        \/ pc' = "guard"
    BY <1>1 DEF FetchCluster, Terminating
  <1>3. obj'.rv \in Nat
    BY <1>1 DEF TypeOK, CustomResources
  <1>4. TypeOK' /\ VersionsFollow'
    BY DEF Versioned
  <1>5. CacheGuarded'
    BY <1>1 DEF Inductive, CacheGuarded, Guarded
  <1>6. PassGuarded'
    BY <1>1, <1>2, <1>3 DEF Inductive, CacheGuarded, PassGuarded, Guarded
  <1>7. TornDown'
    BY <1>2 DEF TornDown, KidIds, StageIds
  <1>8. NoOrphans'
    BY <1>1 DEF Inductive, NoOrphans, Guarded
  <1> QED
    BY <1>4, <1>5, <1>6, <1>7, <1>8 DEF Inductive

\* A pass puts the finalizer on the object.
LEMMA GuardStep ==
    ASSUME Inductive, Versioned', AddFinalizer
    PROVE  Inductive'
  <1> DEFINE copy == [obj EXCEPT !.fin = obj.fin \cup {Finalizer}]
  <1>1. /\ TypeOK /\ UNCHANGED <<crCache, store>>
        /\ req \in Clusters /\ obj \in CustomResources /\ cr[req] # None
        /\ Update(req, copy)
    BY PassType DEF Inductive, AddFinalizer, IsCurrent
  <1>2. copy \in CustomResources /\ Finalizer \in copy.fin
    BY <1>1 DEF CustomResources
  <1> HIDE DEF copy
  <1>3. /\ \A n \in Clusters : Moved(n) /\ (n # req => cr'[n] = cr[n])
        /\ Guarded(cr'[req])
    BY <1>1, <1>2, UpdateMoves
  <1>4. \/ pc' = "lookup" /\ req' = req /\ obj' = cr'[req]
        \/ pc' = "idle"
    BY DEF AddFinalizer, Answered, Retry, Drop
  <1>5. TypeOK' /\ VersionsFollow'
    BY DEF Versioned
  <1>6. CacheGuarded'
    BY <1>1, <1>3 DEF Inductive, CacheGuarded, Guarded
  <1>7. PassGuarded' /\ TornDown'
    BY <1>3, <1>4 DEF PassGuarded, TornDown, Guarded
  <1>8. NoOrphans'
    BY <1>1, <1>3 DEF Inductive, NoOrphans, Guarded
  <1> QED
    BY <1>5, <1>6, <1>7, <1>8 DEF Inductive

\* A call of a pass that builds: it leaves the objects of other environments alone.
LEMMA BuildStep ==
    ASSUME Inductive, Versioned', UNCHANGED <<cr, rev, crCache>>,
           pc \in {"lookup", "write"},
           \/ pc' \in {"lookup", "write", "announce"} /\ UNCHANGED <<req, obj>>
           \/ pc' = "idle",
           \A m \in Clusters \ {req} : \A k \in Kids(m) : store'[k] = store[k]
    PROVE  Inductive'
  <1>1. TypeOK' /\ VersionsFollow'
    BY DEF Versioned
  <1>2. CacheGuarded'
    BY DEF Inductive, CacheGuarded, Guarded
  <1>3. PassGuarded' /\ TornDown'
    BY DEF Inductive, PassGuarded, TornDown, Guarded
  <1>4. NoOrphans'
    BY DEF Inductive, PassGuarded, NoOrphans, Guarded
  <1> QED
    BY <1>1, <1>2, <1>3, <1>4 DEF Inductive

\* The write of a stage.
LEMMA WriteStep ==
    ASSUME NamesUnambiguous, Inductive, Versioned', Write
    PROVE  Inductive'
  <1>1. /\ TypeOK /\ req \in Clusters /\ step \in StageIds
        /\ UNCHANGED <<cr, rev, crCache>> /\ pc = "write"
    BY PassType DEF Inductive, Write, TypeOK, WorkerTypeOK
  <1>2. ThisStage.target \in Kids(req) \cup MetricsKids(req)
    BY <1>1, StageObjects DEF ThisStage
  <1>3. ASSUME NEW m \in Clusters \ {req}, NEW k \in Kids(m)
        PROVE  store'[k] = store[k]
    <2>1. k # ThisStage.target
      BY <1>1, <1>2, Apart
    <2>2. k \in Keys
      BY DEF Keys
    <2> QED
      BY <1>1, <2>1, <2>2 DEF Write, TypeOK, ApiTypeOK
  <1>4. \/ pc' \in {"lookup", "announce"} /\ UNCHANGED <<req, obj>>
        \/ pc' = "idle"
    BY DEF Write, Answered, Advance, GoTo, Retry, Drop
  <1> QED
    BY <1>1, <1>3, <1>4, BuildStep

\* A deletion of the teardown.
LEMMA DeleteStep ==
    ASSUME Inductive, Versioned', DeleteObject
    PROVE  Inductive'
  <1>1. /\ TypeOK /\ req \in Clusters /\ step \in StageIds
        /\ UNCHANGED <<cr, rev, crCache>> /\ pc = "teardown"
        /\ store' = [store EXCEPT ![Doomed(req, step)] = None]
    BY PassType DEF Inductive, DeleteObject, TypeOK, WorkerTypeOK
  <1>2. \/ /\ pc' \in {"teardown", "release"} /\ UNCHANGED <<req, obj>>
           /\ IF AfterDeletion(obj.spec, step) = Done
              THEN pc' = "release"
              ELSE pc' = "teardown" /\ step' = AfterDeletion(obj.spec, step)
        \/ pc' = "idle"
    BY DEF DeleteObject, Answered, GoTo, Retry, Drop
  <1>3. \A k \in Keys : store'[k] = IF k = Doomed(req, step) THEN None ELSE store[k]
    BY <1>1 DEF TypeOK, ApiTypeOK
  <1>4. TypeOK' /\ VersionsFollow'
    BY DEF Versioned
  <1>5. CacheGuarded'
    BY <1>1 DEF Inductive, CacheGuarded, Guarded
  <1>6. PassGuarded'
    BY <1>1, <1>2 DEF Inductive, PassGuarded, Guarded
  <1>7. TornDown'
    <2>1. SUFFICES ASSUME NEW i \in KidIds, UNCHANGED req,
                          (pc' = "teardown" /\ i < step') \/ pc' = "release"
                   PROVE  store'[Doomed(req, i)] = None
      BY <1>2 DEF TornDown
    <2>2. i < step \/ i = step
      BY <1>1, <1>2, <2>1 DEF AfterDeletion, KidIds, StageIds, Done
    <2>3. i < step => store[Doomed(req, i)] = None
      BY <1>1 DEF Inductive, TornDown
    <2> QED
      BY <1>1, <1>3, <2>2, <2>3, KidsDoomed
  <1>8. NoOrphans'
    BY <1>1, <1>3 DEF Inductive, NoOrphans, Guarded, Keys
  <1> QED
    BY <1>4, <1>5, <1>6, <1>7, <1>8 DEF Inductive

\* The release: the cache cannot hold a live copy any more, and nothing is left.
LEMMA ReleaseStep ==
    ASSUME Inductive, Versioned', RemoveFinalizer
    PROVE  Inductive'
  <1> DEFINE copy == [obj EXCEPT !.fin = obj.fin \ {Finalizer}]
  <1>1. /\ TypeOK /\ UNCHANGED <<crCache, store>> /\ pc = "release" /\ pc' = "idle"
        /\ req \in Clusters /\ obj \in CustomResources /\ cr[req] # None
        /\ cr[req].rv = obj.rv /\ Update(req, copy)
    BY PassType DEF Inductive, RemoveFinalizer, IsCurrent, Answered, Finish, Retry, Drop
  <1>2. copy \in CustomResources /\ Finalizer \notin copy.fin
    BY <1>1 DEF CustomResources
  <1> HIDE DEF copy
  <1>3. \A n \in Clusters : Moved(n) /\ (n # req => cr'[n] = cr[n])
    BY <1>1, <1>2, UpdateMoves
  <1>4. cr[req].deleting
    BY <1>1, ApiAssumption DEF Inductive, VersionsFollow, PassGuarded, Follows
  <1>5. TypeOK' /\ VersionsFollow'
    BY DEF Versioned
  <1>6. CacheGuarded'
    <2>1. ~(Guarded(crCache[req]) /\ ~crCache[req].deleting)
      <3>1. SUFFICES ASSUME Guarded(crCache[req]), ~crCache[req].deleting
                     PROVE  FALSE
        OBVIOUS
      <3>2. crCache[req] # None /\ crCache[req] \in CustomResources
        BY <1>1, <3>1 DEF Guarded, TypeOK
      <3>3. obj.rv <= crCache[req].rv /\ crCache[req].rv <= cr[req].rv
        BY <1>1, <3>2 DEF Inductive, VersionsFollow, PassGuarded, Follows
      <3>4. crCache[req].rv = cr[req].rv
        BY <1>1, <3>2, <3>3 DEF CustomResources
      <3>5. crCache[req] = cr[req]
        BY <1>1, <3>2, <3>4 DEF Inductive, VersionsFollow, Follows
      <3> QED
        BY <1>4, <3>1, <3>5
    <2> QED
      BY <1>1, <1>3, <2>1 DEF Inductive, CacheGuarded, Guarded
  <1>7. PassGuarded' /\ TornDown'
    BY <1>1 DEF PassGuarded, TornDown
  <1>8. NoOrphans'
    <2>1. \A k \in Kids(req) : store[k] = None
      BY <1>1, KidsDoomed DEF Inductive, TornDown
    <2> QED
      BY <1>1, <1>3, <2>1 DEF Inductive, NoOrphans, Guarded
  <1> QED
    BY <1>5, <1>6, <1>7, <1>8 DEF Inductive

-----------------------------------------------------------------------------
LEMMA InductiveInit == Init => Inductive
  <1> SUFFICES ASSUME Init
               PROVE  Inductive
    OBVIOUS
  <1>1. /\ \A n \in Clusters : cr[n] = None /\ crCache[n] = None
        /\ \A k \in Keys : store[k] = None
        /\ pc = "idle"
    BY DEF Init, ApiInit
  <1>2. VersionsFollow /\ CacheGuarded /\ PassGuarded /\ TornDown
    BY <1>1 DEF VersionsFollow, CacheGuarded, PassGuarded, TornDown, Follows, Guarded
  <1>3. NoOrphans
    BY <1>1 DEF NoOrphans, Keys
  <1> QED
    BY <1>2, <1>3, TypeInit DEF Inductive

LEMMA InductiveStep ==
    ASSUME NamesUnambiguous
    PROVE  Inductive /\ [Next]_vars => Inductive'
  <1> SUFFICES ASSUME Inductive, [Next]_vars
               PROVE  Inductive'
    OBVIOUS
  <1>0. Versioned'
    BY VersionedStep DEF Inductive, Versioned
  <1> USE DEF apiVars, workerVars
  <1>1. CASE UserNext /\ UNCHANGED managerVars
    BY <1>0, <1>1, UserStep
  <1>2. ASSUME NEW n \in Clusters, DeliverCluster(n)
        PROVE  Inductive'
    BY <1>0, <1>2, DeliverStep
  <1>3. ASSUME NEW n \in Clusters, Dequeue(n)
        PROVE  Inductive'
    BY <1>0, <1>3, RestingStep DEF Dequeue
  <1>4. ASSUME NEW kind \in Kinds, DeliverObjects(kind)
        PROVE  Inductive'
    BY <1>0, <1>4 DEF DeliverObjects, Versioned, Inductive, CacheGuarded, PassGuarded,
                      TornDown, NoOrphans, Guarded
  <1>5. CASE FetchNothing \/ Announce
    BY <1>0, <1>5, RestingStep DEF FetchNothing, Announce, Finish, Drop
  <1>6. CASE FetchCluster
    BY <1>0, <1>6, FetchStep
  <1>7. CASE AddFinalizer
    BY <1>0, <1>7, GuardStep
  <1>8. CASE AddFinalizerConflict \/ RenderFails \/ WriteRefused \/ RemoveFinalizerConflict
    BY <1>0, <1>8, RestingStep DEF AddFinalizerConflict, RenderFails, WriteRefused,
                                   RemoveFinalizerConflict, Retry, Drop
  <1>9. CASE SkipExisting
    BY <1>0, <1>9, BuildStep DEF SkipExisting, Advance, GoTo
  <1>10. CASE LookUp
    BY <1>0, <1>10, BuildStep DEF LookUp
  <1>11. CASE Write
    BY <1>0, <1>11, WriteStep
  <1>12. CASE DeleteObject
    BY <1>0, <1>12, DeleteStep
  <1>13. CASE RemoveFinalizer
    BY <1>0, <1>13, ReleaseStep
  <1>14. CASE CallFails
    BY <1>0, <1>14, RestingStep DEF CallFails, Retry, Drop
  <1>15. CASE Restart
    BY <1>0, <1>15, RestingStep DEF Restart
  <1>16. CASE UNCHANGED vars
    BY <1>0, <1>16 DEF vars, managerVars, Versioned, Inductive, CacheGuarded, PassGuarded,
                       TornDown, NoOrphans, Guarded
  <1> QED
    BY <1>1, <1>2, <1>3, <1>4, <1>5, <1>6, <1>7, <1>8, <1>9, <1>10, <1>11, <1>12, <1>13,
       <1>14, <1>15, <1>16 DEF Next, ManagerNext, Running, Reconcile

\* While an AxonOpsCassandra object is absent or without our finalizer, nothing of
\* its environment exists: whatever users do, however stale the cache is, and
\* wherever a pass fails, as long as no cluster bears the name of a metrics
\* cluster of another.
THEOREM OrphanFree ==
    ASSUME NamesUnambiguous
    PROVE  Spec => []NoOrphans
  <1>1. Inductive => NoOrphans
    BY DEF Inductive
  <1> QED
    BY <1>1, InductiveInit, InductiveStep, PTL DEF Spec
=============================================================================
