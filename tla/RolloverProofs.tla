--------------------------- MODULE RolloverProofs ---------------------------
(***************************************************************************)
(* Proof that two managers which work at the same time undo no edit: what  *)
(* one manager relies on survives whatever the other one does.  And proof  *)
(* that with leader election two processes are one manager, so that what   *)
(* is proved of one manager holds of both.                                 *)
(***************************************************************************)
EXTENDS Rollover, LifecycleProofs

-----------------------------------------------------------------------------
\* All managers name and render the objects in the same way: a definition that reads
\* no variable is the same in every instance.

LEMMA SameKeys ==
    /\ Second!Keys = Keys /\ One!Keys = Keys
    /\ \A n : Second!Kids(n) = Kids(n) /\ One!Kids(n) = Kids(n)
  <1>1. Second!Keys = Keys /\ \A n : Second!Kids(n) = Kids(n)
    BY DEF Keys, Kids, MetricsKids, Es, Ds, As, Ca, CaMt, Metrics, Sts, Svc, Dep, Ing,
           Second!Keys, Second!Kids, Second!MetricsKids, Second!Es, Second!Ds, Second!As,
           Second!Ca, Second!CaMt, Second!Metrics, Second!Sts, Second!Svc, Second!Dep,
           Second!Ing
  <1>2. One!Keys = Keys /\ \A n : One!Kids(n) = Kids(n)
    BY DEF Keys, Kids, MetricsKids, Es, Ds, As, Ca, CaMt, Metrics, Sts, Svc, Dep, Ing,
           One!Keys, One!Kids, One!MetricsKids, One!Es, One!Ds, One!As, One!Ca, One!CaMt,
           One!Metrics, One!Sts, One!Svc, One!Dep, One!Ing
  <1> QED
    BY <1>1, <1>2

LEMMA SameRendered ==
    ASSUME NEW n, NEW spec, NEW i
    PROVE  /\ Second!Rendered(n, spec, i) = Rendered(n, spec, i)
           /\ One!Rendered(n, spec, i) = Rendered(n, spec, i)
  <1>1. Second!Rendered(n, spec, i) = Rendered(n, spec, i)
    BY DEF Rendered, MainCluster, GenerateElasticsearchConfig,
           GenerateElasticsearchServiceConfig, GenerateDashboardConfig,
           GenerateDashboardServiceConfig, GenerateDashboardIngressConfig,
           GenerateServerConfig, GenerateServerServiceConfig, GenerateCassandraConfig,
           GenerateCassandraServiceConfig, ValueOrDefault, ValueOrDefaultInt,
           QuantityOrDefault, Es, Ds, As, Ca, Metrics,
           Second!Rendered, Second!MainCluster, Second!GenerateElasticsearchConfig,
           Second!GenerateElasticsearchServiceConfig, Second!GenerateDashboardConfig,
           Second!GenerateDashboardServiceConfig, Second!GenerateDashboardIngressConfig,
           Second!GenerateServerConfig, Second!GenerateServerServiceConfig,
           Second!GenerateCassandraConfig, Second!GenerateCassandraServiceConfig,
           Second!ValueOrDefault, Second!ValueOrDefaultInt, Second!QuantityOrDefault,
           Second!Es, Second!Ds, Second!As, Second!Ca, Second!Metrics
  <1>2. One!Rendered(n, spec, i) = Rendered(n, spec, i)
    BY DEF Rendered, MainCluster, GenerateElasticsearchConfig,
           GenerateElasticsearchServiceConfig, GenerateDashboardConfig,
           GenerateDashboardServiceConfig, GenerateDashboardIngressConfig,
           GenerateServerConfig, GenerateServerServiceConfig, GenerateCassandraConfig,
           GenerateCassandraServiceConfig, ValueOrDefault, ValueOrDefaultInt,
           QuantityOrDefault, Es, Ds, As, Ca, Metrics,
           One!Rendered, One!MainCluster, One!GenerateElasticsearchConfig,
           One!GenerateElasticsearchServiceConfig, One!GenerateDashboardConfig,
           One!GenerateDashboardServiceConfig, One!GenerateDashboardIngressConfig,
           One!GenerateServerConfig, One!GenerateServerServiceConfig,
           One!GenerateCassandraConfig, One!GenerateCassandraServiceConfig,
           One!ValueOrDefault, One!ValueOrDefaultInt, One!QuantityOrDefault, One!Es,
           One!Ds, One!As, One!Ca, One!Metrics
  <1> QED
    BY <1>1, <1>2

LEMMA SameBodies == Second!Bodies = Bodies /\ One!Bodies = Bodies
  BY SameRendered DEF Bodies, StageIds, Second!Bodies, Second!StageIds,
                      One!Bodies, One!StageIds

\* What each of them assumes is what the first one assumes.
LEMMA SameObjects ==
    /\ Second!CustomResources = CustomResources /\ Second!Objects = Objects
    /\ Second!Disturbances = Disturbances /\ Second!Finalizer = Finalizer
    /\ Second!Prefixes = Prefixes /\ Second!AxonOpsCassandraSpec = AxonOpsCassandraSpec
    /\ One!CustomResources = CustomResources /\ One!Objects = Objects
    /\ One!Disturbances = Disturbances /\ One!Finalizer = Finalizer
    /\ One!Prefixes = Prefixes /\ One!AxonOpsCassandraSpec = AxonOpsCassandraSpec
  <1>1. /\ Second!CustomResources = CustomResources /\ Second!Objects = Objects
        /\ Second!Disturbances = Disturbances /\ Second!Finalizer = Finalizer
        /\ Second!Prefixes = Prefixes /\ Second!AxonOpsCassandraSpec = AxonOpsCassandraSpec
    BY SameBodies DEF CustomResources, Objects, Disturbances, Finalizer, Prefixes,
           AxonOpsCassandraSpec, AxonOpsCassandraCluster, AxonOpsServer, Elasticsearch,
           AxonOpsDashboard,
           Second!CustomResources, Second!Objects, Second!Disturbances, Second!Finalizer,
           Second!Prefixes, Second!AxonOpsCassandraSpec, Second!AxonOpsCassandraCluster,
           Second!AxonOpsServer, Second!Elasticsearch, Second!AxonOpsDashboard
  <1>2. /\ One!CustomResources = CustomResources /\ One!Objects = Objects
        /\ One!Disturbances = Disturbances /\ One!Finalizer = Finalizer
        /\ One!Prefixes = Prefixes /\ One!AxonOpsCassandraSpec = AxonOpsCassandraSpec
    BY SameBodies DEF CustomResources, Objects, Disturbances, Finalizer, Prefixes,
           AxonOpsCassandraSpec, AxonOpsCassandraCluster, AxonOpsServer, Elasticsearch,
           AxonOpsDashboard,
           One!CustomResources, One!Objects, One!Disturbances, One!Finalizer, One!Prefixes,
           One!AxonOpsCassandraSpec, One!AxonOpsCassandraCluster, One!AxonOpsServer,
           One!Elasticsearch, One!AxonOpsDashboard
  <1> QED
    BY <1>1, <1>2

LEMMA SecondAssumptions ==
    /\ Budget \in [Second!Disturbances -> Nat]
    /\ Specs \subseteq Second!AxonOpsCassandraSpec
    /\ Second!Finalizer \notin ForeignFinalizers
    /\ None \notin Second!CustomResources
    /\ Second!Prefixes \subseteq STRING
  BY SameObjects, ApiAssumption, PrefixesAssumption

-----------------------------------------------------------------------------
BothVersioned == Versioned /\ Second!Versioned

LEMMA BothInit == RolloverInit => BothVersioned
  BY VersionedInit, Second!VersionedInit, SecondAssumptions, ClustersAssumption
     DEF RolloverInit, BothVersioned

-----------------------------------------------------------------------------
\* The types of what the two managers share.
LEMMA SameApiTypes ==
    /\ Second!ApiTypeOK <=> ApiTypeOK
    /\ Second!ApiTypeOK' <=> ApiTypeOK'
  BY SameKeys, SameObjects DEF ApiTypeOK, Second!ApiTypeOK

\* What others do keeps the types of a manager that does nothing.
LEMMA FirstIdleTypes ==
    ASSUME TypeOK, ApiTypeOK', UNCHANGED managerVars
    PROVE  TypeOK'
  BY DEF TypeOK, WorkerTypeOK, managerVars, workerVars

LEMMA SecondIdleTypes ==
    ASSUME Second!TypeOK, ApiTypeOK', UNCHANGED managerVars2
    PROVE  Second!TypeOK'
  BY SameApiTypes DEF Second!TypeOK, Second!WorkerTypeOK, managerVars2

\* A step of others moves the objects, and both managers go on following them.
LEMMA UserBoth ==
    ASSUME BothVersioned, UserNext, UNCHANGED <<managerVars, managerVars2>>
    PROVE  BothVersioned'
  <1>1. TypeOK /\ Second!TypeOK /\ Versioned /\ Second!Versioned
    BY DEF BothVersioned, Versioned, Second!Versioned
  <1>2. ApiTypeOK'
    BY <1>1, UserType DEF TypeOK
  <1>3. TypeOK' /\ Second!TypeOK'
    BY <1>1, <1>2, FirstIdleTypes, SecondIdleTypes
  <1>4. \A n \in Clusters : Moved(n)
    BY <1>1, UserMoves
  <1>5. VersionsFollow'
    BY <1>1, <1>3, <1>4, OthersVersions
  <1>6. \A n \in Clusters : Second!Moved(n)
    BY <1>4 DEF Moved, Second!Moved
  <1>7. UNCHANGED Second!managerVars
    BY DEF managerVars2, Second!managerVars, Second!workerVars
  <1>8. Second!VersionsFollow'
    BY <1>1, <1>3, <1>6, <1>7, Second!OthersVersions, SecondAssumptions, ClustersAssumption
  <1> QED
    BY <1>3, <1>5, <1>8 DEF BothVersioned, Versioned, Second!Versioned

\* A step of the first manager.
LEMMA FirstBoth ==
    ASSUME BothVersioned, ManagerNext, UNCHANGED managerVars2
    PROVE  BothVersioned'
  <1>1. TypeOK /\ Second!TypeOK /\ Versioned /\ Second!Versioned
    BY DEF BothVersioned, Versioned, Second!Versioned
  <1>2. TypeOK'
    BY <1>1, TypeStep DEF Next
  <1>3. Second!TypeOK'
    BY <1>1, <1>2, SecondIdleTypes DEF TypeOK
  <1>4. VersionsFollow' /\ \A n \in Clusters : Moved(n)
    BY <1>1, <1>2, ManagerVersions
  <1>5. \A n \in Clusters : Second!Moved(n)
    BY <1>4 DEF Moved, Second!Moved
  <1>6. UNCHANGED Second!managerVars
    BY DEF managerVars2, Second!managerVars, Second!workerVars
  <1>7. Second!VersionsFollow'
    BY <1>1, <1>3, <1>5, <1>6, Second!OthersVersions, SecondAssumptions, ClustersAssumption
  <1> QED
    BY <1>2, <1>3, <1>4, <1>7 DEF BothVersioned, Versioned, Second!Versioned

\* A step of the second manager.
LEMMA SecondBoth ==
    ASSUME BothVersioned, Second!ManagerNext, UNCHANGED managerVars
    PROVE  BothVersioned'
  <1>1. TypeOK /\ Second!TypeOK /\ Versioned /\ Second!Versioned
    BY DEF BothVersioned, Versioned, Second!Versioned
  <1>2. Second!TypeOK'
    BY <1>1, Second!TypeStep, SecondAssumptions, ClustersAssumption DEF Second!Next
  <1>3. TypeOK'
    BY <1>1, <1>2, FirstIdleTypes, SameApiTypes DEF Second!TypeOK
  <1>4. Second!VersionsFollow' /\ \A n \in Clusters : Second!Moved(n)
    BY <1>1, <1>2, Second!ManagerVersions, SecondAssumptions, ClustersAssumption
  <1>5. \A n \in Clusters : Moved(n)
    BY <1>4 DEF Moved, Second!Moved
  <1>6. VersionsFollow'
    BY <1>1, <1>3, <1>5, OthersVersions
  <1> QED
    BY <1>2, <1>3, <1>4, <1>6 DEF BothVersioned, Versioned, Second!Versioned

\* No manager does anything.
LEMMA NeitherBoth ==
    ASSUME BothVersioned, UNCHANGED <<apiVars, managerVars, managerVars2>>
    PROVE  BothVersioned'
  <1>1. Versioned'
    <2>1. Versioned /\ UNCHANGED vars
      BY DEF BothVersioned, vars
    <2> QED
      BY <2>1, VersionedStep
  <1>2. Second!Versioned'
    <2>1. Second!Versioned /\ UNCHANGED Second!vars
      BY DEF BothVersioned, Second!vars, Second!apiVars, Second!managerVars,
             Second!workerVars, apiVars, managerVars2
    <2> QED
      BY <2>1, Second!VersionedStep, SecondAssumptions, ClustersAssumption
  <1> QED
    BY <1>1, <1>2 DEF BothVersioned

\* Who it is that takes a step.
LEMMA Turns ==
    ASSUME [RolloverNext]_rolloverVars
    PROVE  \/ UserNext /\ UNCHANGED <<managerVars, managerVars2>>
           \/ ManagerNext /\ UNCHANGED managerVars2
           \/ Second!ManagerNext /\ UNCHANGED managerVars
           \/ UNCHANGED <<apiVars, managerVars, managerVars2>>
  BY DEF RolloverNext, rolloverVars, ManagerNext, Second!ManagerNext, StartSecond, StopFirst,
         Acquire

LEMMA BothStep == BothVersioned /\ [RolloverNext]_rolloverVars => BothVersioned'
  BY Turns, UserBoth, FirstBoth, SecondBoth, NeitherBoth

-----------------------------------------------------------------------------
\* Even two managers that work at the same time undo no edit and touch no finalizer
\* of others: each Update of a pass is refused unless the copy it writes back is the
\* object, whatever the other manager did in between (Reconcile, lines 77-82 and
\* 123-126).
THEOREM BothKeep == RolloverSpec => BothKeepUpdates
  <1> DEFINE Kept == pc' # pc \/ pc2' # pc2 => \A n \in Clusters : TouchesOnlyFinalizer(n)
  <1>1. BothVersioned /\ [RolloverNext]_rolloverVars => [Kept]_rolloverVars
    <2> SUFFICES ASSUME BothVersioned, [RolloverNext]_rolloverVars, pc' # pc \/ pc2' # pc2,
                        NEW n \in Clusters
                 PROVE  TouchesOnlyFinalizer(n)
      OBVIOUS
    <2>1. Versioned /\ Second!Versioned
      BY DEF BothVersioned
    <2>2. CASE ManagerNext
      BY <2>1, <2>2, ManagerKeeps
    <2>3. CASE Second!ManagerNext
      <3>1. Second!TouchesOnlyFinalizer(n)
        BY <2>1, <2>3, Second!ManagerKeeps, SecondAssumptions, ClustersAssumption
      <3> QED
        BY <3>1, SameObjects DEF TouchesOnlyFinalizer, Second!TouchesOnlyFinalizer
    <2>4. ~UNCHANGED <<managerVars, managerVars2>>
      BY DEF managerVars, workerVars, managerVars2
    <2> QED
      BY <2>2, <2>3, <2>4, Turns
  <1> QED
    BY <1>1, BothInit, BothStep, PTL DEF RolloverSpec, BothKeepUpdates

-----------------------------------------------------------------------------
\* The stages and the deletions of a pass, in every instance.

LEMMA SameStages ==
    ASSUME NEW n, NEW i
    PROVE  /\ Second!Stage(n, i) = Stage(n, i)
           /\ Second!Doomed(n, i) = Doomed(n, i)
           /\ One!Stage(n, i) = Stage(n, i)
           /\ One!Doomed(n, i) = Doomed(n, i)
  <1>1. /\ Second!Stage(n, i) = Stage(n, i)
        /\ Second!Doomed(n, i) = Doomed(n, i)
    BY DEF Stage, Doomed, ElasticSts, ElasticSvc, DashboardDep, DashboardSvc,
           DashboardIngress, MetricsSts, MetricsSvc, ServerSts, ServerSvc, CassandraSts,
           CassandraSvc, Es, Ds, As, Ca, CaMt, Metrics, Sts, Svc, Dep, Ing,
           Second!Stage, Second!Doomed, Second!ElasticSts, Second!ElasticSvc,
           Second!DashboardDep, Second!DashboardSvc, Second!DashboardIngress,
           Second!MetricsSts, Second!MetricsSvc, Second!ServerSts, Second!ServerSvc,
           Second!CassandraSts, Second!CassandraSvc, Second!Es, Second!Ds, Second!As,
           Second!Ca, Second!CaMt, Second!Metrics, Second!Sts, Second!Svc, Second!Dep,
           Second!Ing
  <1>2. /\ One!Stage(n, i) = Stage(n, i)
        /\ One!Doomed(n, i) = Doomed(n, i)
    BY DEF Stage, Doomed, ElasticSts, ElasticSvc, DashboardDep, DashboardSvc,
           DashboardIngress, MetricsSts, MetricsSvc, ServerSts, ServerSvc, CassandraSts,
           CassandraSvc, Es, Ds, As, Ca, CaMt, Metrics, Sts, Svc, Dep, Ing,
           One!Stage, One!Doomed, One!ElasticSts, One!ElasticSvc, One!DashboardDep,
           One!DashboardSvc, One!DashboardIngress, One!MetricsSts, One!MetricsSvc,
           One!ServerSts, One!ServerSvc, One!CassandraSts, One!CassandraSvc, One!Es,
           One!Ds, One!As, One!Ca, One!CaMt, One!Metrics, One!Sts, One!Svc, One!Dep,
           One!Ing
  <1> QED
    BY <1>1, <1>2

LEMMA SameOrder ==
    ASSUME NEW spec, NEW i
    PROVE  /\ Second!AfterStage(spec, i) = AfterStage(spec, i)
           /\ Second!AfterDeletion(spec, i) = AfterDeletion(spec, i)
           /\ One!AfterStage(spec, i) = AfterStage(spec, i)
           /\ One!AfterDeletion(spec, i) = AfterDeletion(spec, i)
  <1>1. /\ Second!AfterStage(spec, i) = AfterStage(spec, i)
        /\ Second!AfterDeletion(spec, i) = AfterDeletion(spec, i)
    BY DEF AfterStage, AfterDeletion,
           Second!AfterStage, Second!AfterDeletion
  <1>2. /\ One!AfterStage(spec, i) = AfterStage(spec, i)
        /\ One!AfterDeletion(spec, i) = AfterDeletion(spec, i)
    BY DEF AfterStage, AfterDeletion,
           One!AfterStage, One!AfterDeletion
  <1> QED
    BY <1>1, <1>2

LEMMA SameCalls ==
    ASSUME NEW k, NEW body
    PROVE  /\ Second!Valid(k, body) <=> Valid(k, body)
           /\ Second!Converts(body) <=> Converts(body)
           /\ One!Valid(k, body) <=> Valid(k, body)
           /\ One!Converts(body) <=> Converts(body)
  <1>1. /\ Second!Valid(k, body) <=> Valid(k, body)
        /\ Second!Converts(body) <=> Converts(body)
    BY DEF Valid, Converts,
           Second!Valid, Second!Converts
  <1>2. /\ One!Valid(k, body) <=> Valid(k, body)
        /\ One!Converts(body) <=> Converts(body)
    BY DEF Valid, Converts,
           One!Valid, One!Converts
  <1> QED
    BY <1>1, <1>2

-----------------------------------------------------------------------------
\* While the first manager holds the lease it is the one manager.
LEMMA FirstIsOne ==
    ASSUME lease # "second", UNCHANGED lease,
           Running
    PROVE  One!Running
  <1>1. ASSUME NEW n \in Clusters, DeliverCluster(n)
        PROVE  One!DeliverCluster(n)
    BY <1>1
       DEF DeliverCluster, Passes, apiVars, workerVars,
           One!DeliverCluster, One!Passes, One!apiVars, One!workerVars
  <1>2. ASSUME NEW n \in Clusters, Dequeue(n)
        PROVE  One!Dequeue(n)
    BY <1>2
       DEF Dequeue, apiVars,
           One!Dequeue, One!apiVars
  <1>3. ASSUME NEW kind \in Kinds, DeliverObjects(kind)
        PROVE  One!DeliverObjects(kind)
    BY <1>3, SameKeys
       DEF DeliverObjects, apiVars, workerVars,
           One!DeliverObjects, One!apiVars, One!workerVars
  <1>4. ASSUME FetchNothing
        PROVE  One!FetchNothing
    BY <1>4
       DEF FetchNothing, Finish, Drop, Terminating, Guarded, Finalizer, apiVars,
           One!FetchNothing, One!Finish, One!Drop, One!Terminating, One!Guarded,
           One!Finalizer, One!apiVars
  <1>5. ASSUME FetchCluster
        PROVE  One!FetchCluster
    BY <1>5
       DEF FetchCluster, Terminating, Guarded, Finalizer, apiVars,
           One!FetchCluster, One!Terminating, One!Guarded, One!Finalizer, One!apiVars
  <1>6. ASSUME AddFinalizer
        PROVE  One!AddFinalizer
    BY <1>6
       DEF AddFinalizer, IsCurrent, Update, Updated, Stored, Finalizer, Answered, Spend,
           Retry, Drop,
           One!AddFinalizer, One!IsCurrent, One!Update, One!Updated, One!Stored,
           One!Finalizer, One!Answered, One!Spend, One!Retry, One!Drop
  <1>7. ASSUME AddFinalizerConflict
        PROVE  One!AddFinalizerConflict
    BY <1>7
       DEF AddFinalizerConflict, IsCurrent, Retry, Drop, apiVars,
           One!AddFinalizerConflict, One!IsCurrent, One!Retry, One!Drop, One!apiVars
  <1>8. ASSUME SkipExisting
        PROVE  One!SkipExisting
    BY <1>8, SameStages, SameOrder
       DEF SkipExisting, ThisStage, Advance, Done, GoTo, apiVars,
           One!SkipExisting, One!ThisStage, One!Advance, One!Done, One!GoTo, One!apiVars
  <1>9. ASSUME LookUp
        PROVE  One!LookUp
    BY <1>9, SameStages, SameRendered, SameCalls
       DEF LookUp, ThisStage, ThisBody, apiVars,
           One!LookUp, One!ThisStage, One!ThisBody, One!apiVars
  <1>10. ASSUME RenderFails
        PROVE  One!RenderFails
    BY <1>10, SameStages, SameRendered, SameCalls
       DEF RenderFails, ThisStage, ThisBody, Retry, Drop, apiVars,
           One!RenderFails, One!ThisStage, One!ThisBody, One!Retry, One!Drop, One!apiVars
  <1>11. ASSUME Write
        PROVE  One!Write
    BY <1>11, SameStages, SameOrder, SameRendered, SameCalls, ZenonT(60)
       DEF Write, WriteAccepted, UpdateAccepted, CreateAccepted, ThisStage, ThisBody,
           Answered, Spend, Retry, Drop, Advance, Done, GoTo,
           One!Write, One!WriteAccepted, One!UpdateAccepted, One!CreateAccepted,
           One!ThisStage, One!ThisBody, One!Answered, One!Spend, One!Retry, One!Drop,
           One!Advance, One!Done, One!GoTo
  <1>12. ASSUME WriteRefused
        PROVE  One!WriteRefused
    BY <1>12, SameStages, SameRendered, SameCalls
       DEF WriteRefused, WriteAccepted, UpdateAccepted, CreateAccepted, ThisStage,
           ThisBody, Retry, Drop, apiVars,
           One!WriteRefused, One!WriteAccepted, One!UpdateAccepted, One!CreateAccepted,
           One!ThisStage, One!ThisBody, One!Retry, One!Drop, One!apiVars
  <1>13. ASSUME Announce
        PROVE  One!Announce
    BY <1>13
       DEF Announce, Finish, Drop, apiVars,
           One!Announce, One!Finish, One!Drop, One!apiVars
  <1>14. ASSUME DeleteObject
        PROVE  One!DeleteObject
    BY <1>14, SameStages, SameOrder
       DEF DeleteObject, Answered, Spend, Retry, Drop, GoTo, Done,
           One!DeleteObject, One!Answered, One!Spend, One!Retry, One!Drop, One!GoTo,
           One!Done
  <1>15. ASSUME RemoveFinalizer
        PROVE  One!RemoveFinalizer
    BY <1>15
       DEF RemoveFinalizer, IsCurrent, Update, Updated, Stored, Finalizer, Answered, Spend,
           Retry, Finish, Drop,
           One!RemoveFinalizer, One!IsCurrent, One!Update, One!Updated, One!Stored,
           One!Finalizer, One!Answered, One!Spend, One!Retry, One!Finish, One!Drop
  <1>16. ASSUME RemoveFinalizerConflict
        PROVE  One!RemoveFinalizerConflict
    BY <1>16
       DEF RemoveFinalizerConflict, IsCurrent, Retry, Drop, apiVars,
           One!RemoveFinalizerConflict, One!IsCurrent, One!Retry, One!Drop, One!apiVars
  <1>17. ASSUME CallFails
        PROVE  One!CallFails
    BY <1>17
       DEF CallFails, Spend, Retry, Drop,
           One!CallFails, One!Spend, One!Retry, One!Drop
  <1> QED
    BY <1>1, <1>2, <1>3, <1>4, <1>5, <1>6, <1>7, <1>8, <1>9,
       <1>10, <1>11, <1>12, <1>13, <1>14, <1>15, <1>16, <1>17
       DEF Running, Reconcile, Kinds, One!Running, One!Reconcile, One!Kinds

\* Once the second manager holds the lease it is.
LEMMA SecondIsOne ==
    ASSUME lease = "second", UNCHANGED lease,
           Second!Running
    PROVE  One!Running
  <1>1. ASSUME NEW n \in Clusters, Second!DeliverCluster(n)
        PROVE  One!DeliverCluster(n)
    BY <1>1
       DEF Second!DeliverCluster, Second!Passes, Second!apiVars, Second!workerVars,
           One!DeliverCluster, One!Passes, One!apiVars, One!workerVars
  <1>2. ASSUME NEW n \in Clusters, Second!Dequeue(n)
        PROVE  One!Dequeue(n)
    BY <1>2
       DEF Second!Dequeue, Second!apiVars,
           One!Dequeue, One!apiVars
  <1>3. ASSUME NEW kind \in Second!Kinds, Second!DeliverObjects(kind)
        PROVE  One!DeliverObjects(kind)
    BY <1>3, SameKeys
       DEF Second!DeliverObjects, Second!apiVars, Second!workerVars,
           One!DeliverObjects, One!apiVars, One!workerVars
  <1>4. ASSUME Second!FetchNothing
        PROVE  One!FetchNothing
    BY <1>4
       DEF Second!FetchNothing, Second!Finish, Second!Drop, Second!Terminating,
           Second!Guarded, Second!Finalizer, Second!apiVars,
           One!FetchNothing, One!Finish, One!Drop, One!Terminating, One!Guarded,
           One!Finalizer, One!apiVars
  <1>5. ASSUME Second!FetchCluster
        PROVE  One!FetchCluster
    BY <1>5
       DEF Second!FetchCluster, Second!Terminating, Second!Guarded, Second!Finalizer,
           Second!apiVars,
           One!FetchCluster, One!Terminating, One!Guarded, One!Finalizer, One!apiVars
  <1>6. ASSUME Second!AddFinalizer
        PROVE  One!AddFinalizer
    BY <1>6
       DEF Second!AddFinalizer, Second!IsCurrent, Second!Update, Second!Updated,
           Second!Stored, Second!Finalizer, Second!Answered, Second!Spend, Second!Retry,
           Second!Drop,
           One!AddFinalizer, One!IsCurrent, One!Update, One!Updated, One!Stored,
           One!Finalizer, One!Answered, One!Spend, One!Retry, One!Drop
  <1>7. ASSUME Second!AddFinalizerConflict
        PROVE  One!AddFinalizerConflict
    BY <1>7
       DEF Second!AddFinalizerConflict, Second!IsCurrent, Second!Retry, Second!Drop,
           Second!apiVars,
           One!AddFinalizerConflict, One!IsCurrent, One!Retry, One!Drop, One!apiVars
  <1>8. ASSUME Second!SkipExisting
        PROVE  One!SkipExisting
    BY <1>8, SameStages, SameOrder
       DEF Second!SkipExisting, Second!ThisStage, Second!Advance, Second!Done, Second!GoTo,
           Second!apiVars,
           One!SkipExisting, One!ThisStage, One!Advance, One!Done, One!GoTo, One!apiVars
  <1>9. ASSUME Second!LookUp
        PROVE  One!LookUp
    BY <1>9, SameStages, SameRendered, SameCalls
       DEF Second!LookUp, Second!ThisStage, Second!ThisBody, Second!apiVars,
           One!LookUp, One!ThisStage, One!ThisBody, One!apiVars
  <1>10. ASSUME Second!RenderFails
        PROVE  One!RenderFails
    BY <1>10, SameStages, SameRendered, SameCalls
       DEF Second!RenderFails, Second!ThisStage, Second!ThisBody, Second!Retry,
           Second!Drop, Second!apiVars,
           One!RenderFails, One!ThisStage, One!ThisBody, One!Retry, One!Drop, One!apiVars
  <1>11. ASSUME Second!Write
        PROVE  One!Write
    <2>1. One!ThisStage = Second!ThisStage /\ One!ThisBody = Second!ThisBody
      BY SameStages, SameRendered DEF Second!ThisStage, Second!ThisBody, One!ThisStage,
                                      One!ThisBody
    <2>2. One!WriteAccepted <=> Second!WriteAccepted
      BY <2>1, SameCalls DEF Second!WriteAccepted, Second!UpdateAccepted,
                             Second!CreateAccepted, One!WriteAccepted,
                             One!UpdateAccepted, One!CreateAccepted
    <2>3. Second!Advance => One!Advance
      BY SameOrder DEF Second!Advance, Second!Done, Second!GoTo, One!Advance, One!Done,
                       One!GoTo
    <2>4. Second!Answered(Second!Advance) => One!Answered(One!Advance)
      BY <2>3 DEF Second!Answered, Second!Spend, Second!Retry, Second!Drop,
                  One!Answered, One!Spend, One!Retry, One!Drop
    <2> QED
      BY <1>11, <2>1, <2>2, <2>4 DEF Second!Write, One!Write
  <1>12. ASSUME Second!WriteRefused
        PROVE  One!WriteRefused
    BY <1>12, SameStages, SameRendered, SameCalls
       DEF Second!WriteRefused, Second!WriteAccepted, Second!UpdateAccepted,
           Second!CreateAccepted, Second!ThisStage, Second!ThisBody, Second!Retry,
           Second!Drop, Second!apiVars,
           One!WriteRefused, One!WriteAccepted, One!UpdateAccepted, One!CreateAccepted,
           One!ThisStage, One!ThisBody, One!Retry, One!Drop, One!apiVars
  <1>13. ASSUME Second!Announce
        PROVE  One!Announce
    BY <1>13
       DEF Second!Announce, Second!Finish, Second!Drop, Second!apiVars,
           One!Announce, One!Finish, One!Drop, One!apiVars
  <1>14. ASSUME Second!DeleteObject
        PROVE  One!DeleteObject
    BY <1>14, SameStages, SameOrder
       DEF Second!DeleteObject, Second!Answered, Second!Spend, Second!Retry, Second!Drop,
           Second!GoTo, Second!Done,
           One!DeleteObject, One!Answered, One!Spend, One!Retry, One!Drop, One!GoTo,
           One!Done
  <1>15. ASSUME Second!RemoveFinalizer
        PROVE  One!RemoveFinalizer
    BY <1>15
       DEF Second!RemoveFinalizer, Second!IsCurrent, Second!Update, Second!Updated,
           Second!Stored, Second!Finalizer, Second!Answered, Second!Spend, Second!Retry,
           Second!Finish, Second!Drop,
           One!RemoveFinalizer, One!IsCurrent, One!Update, One!Updated, One!Stored,
           One!Finalizer, One!Answered, One!Spend, One!Retry, One!Finish, One!Drop
  <1>16. ASSUME Second!RemoveFinalizerConflict
        PROVE  One!RemoveFinalizerConflict
    BY <1>16
       DEF Second!RemoveFinalizerConflict, Second!IsCurrent, Second!Retry, Second!Drop,
           Second!apiVars,
           One!RemoveFinalizerConflict, One!IsCurrent, One!Retry, One!Drop, One!apiVars
  <1>17. ASSUME Second!CallFails
        PROVE  One!CallFails
    BY <1>17
       DEF Second!CallFails, Second!Spend, Second!Retry, Second!Drop,
           One!CallFails, One!Spend, One!Retry, One!Drop
  <1> QED
    BY <1>1, <1>2, <1>3, <1>4, <1>5, <1>6, <1>7, <1>8, <1>9,
       <1>10, <1>11, <1>12, <1>13, <1>14, <1>15, <1>16, <1>17
       DEF Second!Running, Second!Reconcile, Second!Kinds,
           One!Running, One!Reconcile, One!Kinds

-----------------------------------------------------------------------------
\* With leader election one of the two processes holds the lease, and the first one
\* has ended when the second one does.
LeaseHeld == LeaderElect => \/ lease = "first"
                            \/ lease = "second" /\ "first" \notin up

LEMMA LeaseHeldAlways == RolloverSpec => []LeaseHeld
  <1>1. RolloverInit => LeaseHeld
    BY DEF RolloverInit, LeaseHeld
  <1>2. LeaseHeld /\ [RolloverNext]_rolloverVars => LeaseHeld'
    BY DEF LeaseHeld, RolloverNext, StartSecond, StopFirst, Acquire, rolloverVars
  <1> QED
    BY <1>1, <1>2, PTL DEF RolloverSpec

\* The users see no difference.
LEMMA OneUser == UserNext <=> One!UserNext
  BY SameKeys
     DEF UserNext, UserCreates, UserEdits, UserDeletes, ForeignRelease, ObjectLost, Spend,
         Update, Updated, Marked, Stored, Terminating,
         One!UserNext, One!UserCreates, One!UserEdits, One!UserDeletes,
         One!ForeignRelease, One!ObjectLost, One!Spend, One!Update, One!Updated,
         One!Marked, One!Stored, One!Terminating

LEMMA OneStep ==
    ASSUME LeaderElect, LeaseHeld, [RolloverNext]_rolloverVars
    PROVE  [One!Next]_(One!vars)
  <1> USE DEF One!Next, One!ManagerNext
  <1>1. CASE UserNext /\ UNCHANGED <<managerVars, managerVars2, up, lease>>
    BY <1>1, OneUser DEF managerVars, workerVars, managerVars2, One!managerVars,
                         One!workerVars
  <1>2. CASE Active("first") /\ Running /\ UNCHANGED <<managerVars2, up, lease>>
    BY <1>2, FirstIsOne DEF Active, LeaseHeld
  <1>3. CASE Active("second") /\ Second!Running /\ UNCHANGED <<managerVars, up, lease>>
    BY <1>3, SecondIsOne DEF Active, LeaseHeld
  <1>4. CASE Acquire
    BY <1>4, SameKeys DEF Acquire, Second!Restart, Second!Spend, One!Restart, One!Spend
  <1>5. CASE UNCHANGED <<apiVars, managerVars, managerVars2, lease>>
    BY <1>5 DEF apiVars, managerVars, workerVars, managerVars2, One!vars, One!apiVars,
                One!managerVars, One!workerVars
  <1>6. StartSecond \/ StopFirst => UNCHANGED <<apiVars, managerVars, managerVars2, lease>>
    BY DEF StartSecond, StopFirst
  <1> QED
    BY <1>1, <1>2, <1>3, <1>4, <1>5, <1>6 DEF RolloverNext, rolloverVars

-----------------------------------------------------------------------------
\* "Enabling this will ensure there is only one active controller manager" (main,
\* lines 67-69): with leader election the two processes together take no step that
\* one manager, restarted when the lease changes hands, would not take.
THEOREM LeaderIsOne == RolloverSpec => OneManager
  <1>1. LeaseHeld /\ [RolloverNext]_rolloverVars =>
            [LeaderElect => [One!Next]_(One!vars)]_rolloverVars
    BY OneStep
  <1> QED
    BY <1>1, LeaseHeldAlways, PTL DEF RolloverSpec, OneManager

\* In particular it is all that one manager is proved to be.
LEMMA OneSpec ==
    ASSUME LeaderElect
    PROVE  RolloverSpec => One!Spec
  <1>1. RolloverInit => One!Init
    BY SameKeys DEF RolloverInit, Init, ApiInit, One!Init, One!ApiInit
  <1>2. LeaseHeld /\ [RolloverNext]_rolloverVars => [One!Next]_(One!vars)
    BY OneStep
  <1> QED
    BY <1>1, <1>2, LeaseHeldAlways, PTL DEF RolloverSpec, One!Spec

LEMMA OneAssumptions ==
    /\ None \notin One!Objects
    /\ Budget \in [One!Disturbances -> Nat]
    /\ Specs \subseteq One!AxonOpsCassandraSpec
    /\ One!Finalizer \notin ForeignFinalizers
    /\ None \notin One!CustomResources
    /\ One!Prefixes \subseteq STRING
  BY SameObjects, ApiAssumption, PrefixesAssumption, ObjectsAssumption

LEMMA OneNames == NamesUnambiguous => One!NamesUnambiguous
  BY DEF NamesUnambiguous, Metrics, One!NamesUnambiguous, One!Metrics

\* So with leader election a rollover leaves no orphans, as one manager leaves none;
\* without it two managers may (Reconcile, lines 74-130).
THEOREM LeaderOrphanFree ==
    ASSUME LeaderElect, NamesUnambiguous
    PROVE  RolloverSpec => []NoOrphans
  <1>1. One!Spec => []One!NoOrphans
    BY OneNames, OneAssumptions, ClustersAssumption, One!OrphanFree
  <1>2. One!NoOrphans => NoOrphans
    BY SameKeys, SameObjects DEF NoOrphans, Guarded, One!NoOrphans, One!Guarded
  <1> QED
    BY <1>1, <1>2, OneSpec, PTL

\* And the two processes together lead every environment through the life that
\* Lifecycle describes, across the takeover (main, lines 67-69; Reconcile, lines
\* 66-129).
THEOREM LeaderLifecycle ==
    ASSUME LeaderElect, NamesUnambiguous
    PROVE  RolloverSpec => One!ImplementsLifecycle
  <1>1. One!Spec => One!ImplementsLifecycle
    BY OneNames, OneAssumptions, ClustersAssumption, One!LifecycleImplemented
  <1> QED
    BY <1>1, OneSpec, PTL

\* While nobody interferes, no work is lost when the lease changes hands, and what the
\* leader announces is true, whichever process it is (main, lines 67-69; Reconcile,
\* lines 144-480).
THEOREM LeaderWorks ==
    ASSUME LeaderElect, NamesUnambiguous
    PROVE  RolloverSpec /\ [][One!Calm]_(One!vars) =>
               [](One!AnnouncedApplied /\ One!HostsResolve /\ One!NoLostWork)
  <1>1. One!CalmSpec => []One!Working
    BY OneNames, OneAssumptions, ClustersAssumption, One!WorkingAlways
  <1>2. One!Working => One!AnnouncedApplied /\ One!HostsResolve /\ One!NoLostWork
    BY DEF One!Working
  <1>3. [One!Next]_(One!vars) /\ [One!Calm]_(One!vars) => [One!Next /\ One!Calm]_(One!vars)
    OBVIOUS
  <1> QED
    BY <1>1, <1>2, <1>3, OneSpec, PTL DEF One!Spec, One!CalmSpec
=============================================================================
