------------------------------ MODULE Operator ------------------------------
(***************************************************************************)
(* One running manager of the operator: the informers that feed its cache, *)
(* the work queue, and the worker that runs Reconcile, next to the API     *)
(* server of ApiServer and its users.                                      *)
(*                                                                         *)
(* Reconcile is modelled call by call.  Between any two calls to the API   *)
(* server or to the cache, users and informers may move.  A lookup reads   *)
(* the cache, which may lag behind the API server; a write goes to the API *)
(* server, may be refused, and may take effect although its answer is      *)
(* lost.  Any error ends the pass and puts the name back on the queue.     *)
(***************************************************************************)
EXTENDS ApiServer

VARIABLES crCache,   \* crCache[n]: the cached AxonOpsCassandra object n, or None
          seen,      \* seen[k]: the cache holds an object with key k
          queue,     \* the names waiting to be reconciled
          pc,        \* the call the worker makes next
          req,       \* the name being reconciled, <<>> when idle
          obj,       \* axonopsCassCluster, the worker's copy of the object
          step,      \* the stage, or the deletion, the worker is at
          found      \* what the last lookup said

workerVars  == <<pc, req, obj, step, found>>
managerVars == <<crCache, seen, queue, workerVars>>
vars        == <<apiVars, managerVars>>

-----------------------------------------------------------------------------
\* The stages of a pass, in order.  A stage looks one object up and creates or
\* updates one object; update is FALSE where an object that was found is left
\* as it is.

ElasticSts(n) == [look |-> Sts(Es(n)), target |-> Sts(Es(n)), update |-> TRUE]
ElasticSvc(n) == [look |-> Svc(Es(n)), target |-> Svc(Es(n)), update |-> FALSE]
DashboardDep(n) == [look |-> Dep(Ds(n)), target |-> Dep(Ds(n)), update |-> TRUE]
DashboardSvc(n) == [look |-> Svc(Ds(n)), target |-> Svc(Ds(n)), update |-> FALSE]
DashboardIngress(n) == [look |-> Ing(Ds(n)), target |-> Ing(Ds(n)), update |-> TRUE]
\* The metrics StatefulSet is looked up under another name than it is created.
MetricsSts(n) == [look |-> Sts(CaMt(n)), target |-> Sts(Ca(Metrics(n))), update |-> TRUE]
\* The lookup before the metrics Service asks for the main cluster's Service.
MetricsSvc(n) == [look |-> Svc(Ca(n)), target |-> Svc(Ca(Metrics(n))), update |-> TRUE]
ServerSts(n) == [look |-> Sts(As(n)), target |-> Sts(As(n)), update |-> TRUE]
ServerSvc(n) == [look |-> Svc(As(n)), target |-> Svc(As(n)), update |-> TRUE]
CassandraSts(n) == [look |-> Sts(Ca(n)), target |-> Sts(Ca(n)), update |-> TRUE]
CassandraSvc(n) == [look |-> Svc(Ca(n)), target |-> Svc(Ca(n)), update |-> TRUE]

Stage(n, i) == << ElasticSts(n), ElasticSvc(n), DashboardDep(n), DashboardSvc(n),
                  DashboardIngress(n), MetricsSts(n), MetricsSvc(n), ServerSts(n),
                  ServerSvc(n), CassandraSts(n), CassandraSvc(n) >>[i]

StageIds == 1 .. 11
Done     == 12

\* The stages guarded by a condition on the spec.
Wanted(spec, i) ==
    /\ i = 5 => spec.dashboard.ingress
    /\ i \in {6, 7} => spec.server.metricsEnabled

\* Mutants of AfterStage: the stage of the Ingress, or of the metrics Service, is
\* never entered.
AfterStageNoIngress(spec, i) ==
    IF i = 4 THEN (IF spec.server.metricsEnabled THEN 6 ELSE 8) ELSE i + 1
AfterStageNoMetricsService(spec, i) ==
    CASE i = 4 /\ spec.dashboard.ingress -> 5
      [] i = 6                           -> 8
      [] i \in {4, 5} /\ ~(i = 4 /\ spec.dashboard.ingress) ->
            IF spec.server.metricsEnabled THEN 6 ELSE 8
      [] OTHER -> i + 1

\* The stage after stage i: the two conditions skip stages without a call.
AfterStage(spec, i) ==
    CASE i = 4 /\ spec.dashboard.ingress -> 5
      [] i \in {4, 5} /\ ~(i = 4 /\ spec.dashboard.ingress) ->
            IF spec.server.metricsEnabled THEN 6 ELSE 8
      [] OTHER -> i + 1

\* With the metrics cluster enabled, an unset data centre of the main cluster
\* becomes "axonops1" before the main cluster is rendered.
MainCluster(spec) ==
    IF spec.server.metricsEnabled
    THEN [spec.cassandra EXCEPT !.dc = ValueOrDefault(@, <<"axonops1">>)]
    ELSE spec.cassandra

\* The body stage i renders for cluster n.
Rendered(n, spec, i) ==
    CASE i = 1  -> GenerateElasticsearchConfig(n, spec)
      [] i = 2  -> GenerateElasticsearchServiceConfig(n, spec)
      [] i = 3  -> GenerateDashboardConfig(n, spec)
      [] i = 4  -> GenerateDashboardServiceConfig(n, spec)
      [] i = 5  -> GenerateDashboardIngressConfig(n, spec)
      [] i = 6  -> GenerateCassandraConfig(Metrics(n), spec.server.metricsCluster.size,
                                           spec.server.metricsCluster)
      [] i = 7  -> GenerateCassandraServiceConfig(Metrics(n), spec.cassandra.labels)
      [] i = 8  -> GenerateServerConfig(n, spec)
      [] i = 9  -> GenerateServerServiceConfig(n, spec)
      [] i = 10 -> GenerateCassandraConfig(n, spec.server.metricsCluster.size,
                                           MainCluster(spec))
      [] i = 11 -> GenerateCassandraServiceConfig(n, spec.cassandra.labels)

\* The deletions of a teardown, in order; 7 and 8 only with metrics enabled.
Doomed(n, i) == << Sts(Es(n)), Svc(Es(n)), Sts(Ca(n)), Svc(Ca(n)), Sts(As(n)),
                   Svc(As(n)), Sts(CaMt(n)), Svc(CaMt(n)), Dep(Ds(n)), Svc(Ds(n)),
                   Ing(Ds(n)) >>[i]

\* Mutants of AfterDeletion: the Service of the dashboard is forgotten; with
\* metrics enabled the list of StatefulSets is replaced instead of extended.
AfterDeletionNoService(spec, i) ==
    CASE i = 6 /\ ~spec.server.metricsEnabled -> 9
      [] i = 9                                -> 11
      [] OTHER                                -> i + 1
AfterDeletionReplacing(spec, i) ==
    CASE i = 6 /\ ~spec.server.metricsEnabled -> 9
      [] i = 2 /\ spec.server.metricsEnabled  -> 7
      [] OTHER                                -> i + 1

\* The deletion after deletion i.
AfterDeletion(spec, i) == IF i = 6 /\ ~spec.server.metricsEnabled THEN 9 ELSE i + 1

Bodies == { Rendered(n, spec, i) : n \in Clusters, spec \in Specs, i \in StageIds }

-----------------------------------------------------------------------------
\* The informers and the work queue.

Init ==
    /\ ApiInit
    /\ crCache = [n \in Clusters |-> None]
    /\ seen = [k \in Keys |-> FALSE]
    /\ queue = {}
    /\ pc = "idle" /\ req = <<>> /\ obj = None /\ step = 0 /\ found = FALSE

\* Mutant of Passes: no update passes.
PassesCreationOnly(old, new) == old = None \/ new = None \/ old.uid # new.uid

\* GenerationChangedPredicate: creations and deletions pass, an update passes
\* when it changes the generation.  An object that was deleted and created anew
\* is delivered as a deletion and a creation.
Passes(old, new) ==
    \/ old = None \/ new = None
    \/ old.uid # new.uid
    \/ old.gen # new.gen

\* The watch brings the cached copy of n up to date.  Stopping short of the
\* newest version is the same as delivering before that version was made.
DeliverCluster(n) ==
    /\ crCache[n] # cr[n]
    /\ crCache' = [crCache EXCEPT ![n] = cr[n]]
    /\ queue' = IF Passes(crCache[n], cr[n]) THEN queue \cup {n} ELSE queue
    /\ UNCHANGED <<apiVars, seen, workerVars>>

\* The watch on one kind of generated objects catches up.  The objects carry no
\* owner reference, so no event about them reaches the queue.
DeliverObjects(kind) ==
    /\ \E k \in Keys : k.kind = kind /\ seen[k] # (store[k] # None)
    /\ seen' = [k \in Keys |-> IF k.kind = kind THEN store[k] # None ELSE seen[k]]
    /\ UNCHANGED <<apiVars, crCache, queue, workerVars>>

\* The manager's process dies and a new one lists everything before it starts:
\* each existing object is then a creation to the predicate.
Restart ==
    /\ Spend("restart")
    /\ crCache' = cr
    /\ seen' = [k \in Keys |-> store[k] # None]
    /\ queue' = {n \in Clusters : cr[n] # None}
    /\ pc' = "idle" /\ req' = <<>> /\ obj' = None /\ step' = 0 /\ found' = FALSE
    /\ UNCHANGED <<cr, store, rev>>

-----------------------------------------------------------------------------
\* Reconcile.

\* Mutant of Drop: the copy lives in the reconciler and outlives the pass.
DropKeepsCopy == pc' = "idle" /\ req' = <<>> /\ obj' = obj /\ step' = 0 /\ found' = FALSE

\* The worker drops its local state; Finish returns no error, Retry returns one
\* and the name is queued again.
Drop   == pc' = "idle" /\ req' = <<>> /\ obj' = None /\ step' = 0 /\ found' = FALSE

\* Mutant of Finish: the name is forgotten with what has happened to it meanwhile.
FinishForgets == Drop /\ queue' = queue \ {req}

Finish == Drop /\ UNCHANGED queue

\* Mutants of Retry: the pass ends without an error; the pass starts over in place.
RetryForgotten == Drop /\ UNCHANGED queue
RetryInPlace   == /\ pc' = "fetch" /\ obj' = None /\ step' = 0 /\ found' = FALSE
                  /\ UNCHANGED <<req, queue>>

Retry == Drop /\ queue' = queue \cup {req}

GoTo(label, i) == /\ pc' = label /\ step' = i /\ found' = FALSE
                  /\ UNCHANGED <<req, obj, queue>>

\* A call took effect: its answer arrives, or is lost and the pass fails.
Answered(continue) == \/ continue /\ UNCHANGED budget
                      \/ Spend("fault") /\ Retry

\* A call fails without having taken effect, for no reason of its own.
CallFails ==
    /\ pc \notin {"idle", "announce"}
    /\ Spend("fault")
    /\ Retry
    /\ UNCHANGED <<cr, store, rev, crCache, seen>>

Dequeue(n) ==
    /\ pc = "idle" /\ n \in queue
    /\ pc' = "fetch" /\ req' = n
    /\ queue' = queue \ {n}
    /\ UNCHANGED <<apiVars, crCache, seen, obj, step, found>>

\* The object is gone, or is going without our finalizer: nothing to do.
FetchNothing ==
    /\ pc = "fetch"
    /\ crCache[req] = None \/ (Terminating(crCache[req]) /\ ~Guarded(crCache[req]))
    /\ Finish
    /\ UNCHANGED <<apiVars, crCache, seen>>

\* Mutant of FetchCluster: the environment is built before the finalizer is set.
FetchClusterUnguarded ==
    /\ pc = "fetch"
    /\ Terminating(crCache[req]) => Guarded(crCache[req])
    /\ crCache[req] # None
    /\ obj' = crCache[req] /\ step' = 1
    /\ pc' = IF Terminating(obj') THEN "teardown" ELSE "lookup"
    /\ UNCHANGED <<apiVars, crCache, seen, queue, req, found>>

\* The cached copy decides: tear down, build, or set the finalizer first.
FetchCluster ==
    /\ pc = "fetch"
    /\ Terminating(crCache[req]) => Guarded(crCache[req])
    /\ crCache[req] # None
    /\ obj' = crCache[req]
    /\ \/ Terminating(obj') /\ pc' = "teardown" /\ step' = 1
       \/ ~Terminating(obj') /\ Guarded(obj') /\ pc' = "lookup" /\ step' = 1
       \/ ~Terminating(obj') /\ ~Guarded(obj') /\ pc' = "guard" /\ step' = 0
    /\ UNCHANGED <<apiVars, crCache, seen, queue, req, found>>

\* Update(axonopsCassCluster) with the finalizer appended; the answer refreshes
\* the worker's copy.
AddFinalizer ==
    /\ pc = "guard"
    /\ IsCurrent(req, obj)
    /\ Update(req, [obj EXCEPT !.fin = obj.fin \cup {Finalizer}])
    /\ Answered(/\ obj' = cr'[req] /\ pc' = "lookup" /\ step' = 1
                /\ UNCHANGED <<queue, req, found>>)
    /\ UNCHANGED <<store, crCache, seen>>

AddFinalizerConflict ==
    /\ pc = "guard"
    /\ ~IsCurrent(req, obj)
    /\ Retry
    /\ UNCHANGED <<apiVars, crCache, seen>>

ThisStage == Stage(req, step)
ThisBody  == Rendered(req, obj.spec, step)

\* On to the next stage, or to the closing event after the last one.
Advance == LET next == AfterStage(obj.spec, step)
           IN  IF next = Done THEN GoTo("announce", 0) ELSE GoTo("lookup", next)

\* The lookup finds an object the stage would only have created.
SkipExisting ==
    /\ pc = "lookup"
    /\ ~ThisStage.update /\ seen[ThisStage.look]
    /\ Advance
    /\ UNCHANGED <<apiVars, crCache, seen>>

\* The lookup reads the cache, and the generator renders.
LookUp ==
    /\ pc = "lookup"
    /\ ThisStage.update \/ ~seen[ThisStage.look]
    /\ Converts(ThisBody)
    /\ pc' = "write" /\ found' = seen[ThisStage.look]
    /\ UNCHANGED <<apiVars, crCache, seen, queue, req, obj, step>>

\* The generator returns an error.
RenderFails ==
    /\ pc = "lookup"
    /\ ThisStage.update \/ ~seen[ThisStage.look]
    /\ ~Converts(ThisBody)
    /\ Retry
    /\ UNCHANGED <<apiVars, crCache, seen>>

WriteAccepted == IF found THEN UpdateAccepted(ThisStage.target, ThisBody)
                          ELSE CreateAccepted(ThisStage.target, ThisBody)

Write ==
    /\ pc = "write"
    /\ WriteAccepted
    /\ store' = [store EXCEPT ![ThisStage.target] =
                    [uid |-> obj.uid, gen |-> obj.gen, body |-> ThisBody]]
    /\ Answered(Advance)
    /\ UNCHANGED <<cr, rev, crCache, seen>>

WriteRefused ==
    /\ pc = "write"
    /\ ~WriteAccepted
    /\ Retry
    /\ UNCHANGED <<apiVars, crCache, seen>>

\* The event "Environment created successfully".
Announce ==
    /\ pc = "announce"
    /\ Finish
    /\ UNCHANGED <<apiVars, crCache, seen>>

\* Mutant of DeleteObject: a missing object is an error.
DeleteObjectStrict ==
    /\ pc = "teardown"
    /\ store' = [store EXCEPT ![Doomed(req, step)] = None]
    /\ IF store[Doomed(req, step)] = None
       THEN Retry /\ UNCHANGED budget
       ELSE Answered(LET next == AfterDeletion(obj.spec, step)
                     IN  IF next = Done THEN GoTo("release", 0) ELSE GoTo("teardown", next))
    /\ UNCHANGED <<cr, rev, crCache, seen>>

\* Delete, with not-found ignored.
DeleteObject ==
    /\ pc = "teardown"
    /\ store' = [store EXCEPT ![Doomed(req, step)] = None]
    /\ Answered(LET next == AfterDeletion(obj.spec, step)
                IN  IF next = Done THEN GoTo("release", 0) ELSE GoTo("teardown", next))
    /\ UNCHANGED <<cr, rev, crCache, seen>>

\* Update(axonopsCassCluster) with the finalizer removed.
RemoveFinalizer ==
    /\ pc = "release"
    /\ IsCurrent(req, obj)
    /\ Update(req, [obj EXCEPT !.fin = obj.fin \ {Finalizer}])
    /\ Answered(Finish)
    /\ UNCHANGED <<store, crCache, seen>>

RemoveFinalizerConflict ==
    /\ pc = "release"
    /\ ~IsCurrent(req, obj)
    /\ Retry
    /\ UNCHANGED <<apiVars, crCache, seen>>

\* What the worker does once it has taken a name from the queue.
Reconcile ==
    \/ FetchNothing \/ FetchCluster
    \/ AddFinalizer \/ AddFinalizerConflict
    \/ SkipExisting \/ LookUp \/ RenderFails
    \/ Write \/ WriteRefused \/ Announce
    \/ DeleteObject
    \/ RemoveFinalizer \/ RemoveFinalizerConflict

\* A manager that runs: its watches, its queue and its worker.
Running ==
    \/ \E n \in Clusters : DeliverCluster(n) \/ Dequeue(n)
    \/ \E kind \in Kinds : DeliverObjects(kind)
    \/ Reconcile \/ CallFails

ManagerNext == Running \/ Restart

Next == \/ UserNext /\ UNCHANGED managerVars
        \/ ManagerNext

Spec == Init /\ [][Next]_vars

\* The worker and the watches keep running.  Dequeue is strongly fair for each
\* name: the queue is first in, first out, and the worker is idle between passes.
Fairness ==
    /\ WF_vars(Reconcile)
    /\ \A n \in Clusters : WF_vars(DeliverCluster(n)) /\ SF_vars(Dequeue(n))
    /\ \A kind \in Kinds : WF_vars(DeliverObjects(kind))

FairSpec == Spec /\ Fairness

-----------------------------------------------------------------------------
PcValues == {"idle", "fetch", "guard", "lookup", "write", "announce", "teardown", "release"}

Objects == [uid : Nat, gen : Nat, body : Bodies]

ApiTypeOK ==
    /\ cr \in [Clusters -> CustomResources \cup {None}]
    /\ store \in [Keys -> Objects \cup {None}]
    /\ rev \in Nat
    /\ budget \in [Disturbances -> Nat]

WorkerTypeOK ==
    /\ pc \in PcValues
    /\ IF pc = "idle" THEN req = <<>> ELSE req \in Clusters
    /\ IF pc \in {"idle", "fetch"} THEN obj = None ELSE obj \in CustomResources
    /\ IF pc \in {"lookup", "write", "teardown"} THEN step \in StageIds ELSE step = 0
    /\ found \in BOOLEAN

\* The type invariant; in particular the worker keeps nothing between two passes.
TypeOK ==
    /\ ApiTypeOK
    /\ crCache \in [Clusters -> CustomResources \cup {None}]
    /\ seen \in [Keys -> BOOLEAN]
    /\ queue \subseteq Clusters
    /\ WorkerTypeOK
=============================================================================
