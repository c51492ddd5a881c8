# A TLA+ model of the AxonOps developer operator

The operator watches `AxonOpsCassandra` objects. For each it builds an
environment for developers in the object's namespace: Elasticsearch, the AxonOps
dashboard, the AxonOps server, Apache Cassandra and, on request, a second
Cassandra for the metrics. When the object is deleted it takes the environment
down, held back by a finalizer until that is done.

The code is one sequential function, `Reconcile`
(`internal/controller/axonopscassandra_controller.go`), of some four hundred
lines. What is hard about it is what happens between its lines: it reads from a
cache that lags, writes to a server that may refuse or whose answer may be lost,
is repeated from the start after any error, can be killed anywhere, is woken up
by filtered events only, and may run in two processes while its Deployment rolls
over. That is what the modules here are about.

## Inventory

| Component | State | Operations | Talks to | Where it is hard | What makes it correct |
|---|---|---|---|---|---|
| Reconciler (`internal/controller`) | none between passes; within a pass a copy of the object | `Reconcile`: set the finalizer, eleven stages (look up, render, create or update), or eleven deletions and the finalizer's removal; `SetupWithManager` | cache (reads), API server (writes), `apps`, queue | stale reads, partial passes, lost answers, retries, names that differ | `NoOrphans`, `AnnouncedApplied`, `NoLostUpdate`, `Isolation`, `ImplementsLifecycle`, `ReleasedEventually` |
| Templates (`apps`) | none | nine generators and `GenerateCassandraHeadlessServiceConfig`, which nothing calls | spec in, typed object out | defaults that cannot apply, unquoted scalars, names glued together | `HostsResolve`, `AnnouncedApplied`, `Converges` |
| Object names (both of the above) | none | name of each object at lookup, creation, deletion | | the metrics cluster has two names | `NoOrphans`, `Isolation`; refuted: `MetricsGone`, `Builds` |
| Manager (`cmd/main.go`, controller-runtime) | cache, work queue, the lease when leader election is on, the set of namespaces | deliver events, dequeue, requeue on error, restart; start, stop, take over; parse `--watch-namespaces` | API server, reconciler | events filtered by generation, crash, one worker for all, two managers while a Deployment rolls over, a manager restarted for other namespaces | `NoLostWork`, `Converges`, `OneManager`, `BothKeepUpdates`, `HandsOff`, `NamedSettle`; refuted without leader election: `NoOrphans` |
| API server, users, other controllers (external) | the objects | create, edit, delete, update with optimistic concurrency, finalizers, validation | | races with every pass | (environment) |
| API types (`api/v1beta1`) | the spec | | templates | fields nothing reads | the shape of every spec (`ApiAssumption`) |
| Utilities (`utils`) | none | `ContainsString`, `RemoveString`, `ValueOrDefault*`; the rest is called by nothing | | | used inside the models above |
| Generated deep copies, Helm chart, kustomize, samples, tests | | | | | not modelled |

## Modules

| Module | Models |
|---|---|
| `Names` | the names of the generated objects. A name is the sequence of its `-`-separated segments, so that two ways of gluing a name together can be compared |
| `Render` | package `apps`: the part of each generated object the properties tell apart, and whether the YAML converts; the sections of the spec |
| `ApiServer` | the API server as the code uses it, and users: `cr`, `store`, resource versions, generations, finalizers, validation. External |
| `Operator` | one manager: watches (`crCache`, `seen`), `queue`, and `Reconcile` call by call (`pc`, `req`, `obj`, `step`, `found`) |
| `OperatorProperties` | the properties of one manager, and the inductive invariant of `NoOrphans` |
| `Lifecycle` | the abstract specification: the life of an environment without caches, passes or lost answers |
| `Refinement` | how the states of `Operator` are states of `Lifecycle`, and the inductive invariant behind it |
| `Calm` | the operator while nobody interferes with what it generates, and the inductive invariant of what it promises then |
| `Rollover` | two managers over one API server: process start and end, leader election, takeover |
| `Namespaces` | `--watch-namespaces`: how the value is read, and a manager restarted with another one |
| `MCOperator`, `MCRollover`, `MCNamespaces` | instances for TLC: specs from the README and `config/samples`, budgets, values of the flag |
| `OperatorProofs`, `VersionProofs`, `OrphanProofs`, `IsolationProofs`, `LifecycleProofs`, `CalmProofs`, `RolloverProofs`, `NamespaceProofs` | theorems and their proofs |

`Operator` extends `ApiServer`, which extends `Render` and `Names`.
`OperatorProperties` extends `Operator`; `Refinement`, `Rollover` and `Namespaces` extend
that, and `Calm` extends `Refinement`. `Refinement` instantiates `Lifecycle`. `Rollover` has the variables of `Operator` for
the first manager, and instances of it, `Second` and `One`, for the second manager and for
the one whose turn it is. The modules it instantiates are `Operator` with the proofs about
it, so that what is proved of one manager is at hand for each of them.

### State and actions next to the code

- `obj` is `axonopsCassCluster`, `req` the request, `found` whether the last `getX`
  returned an object. `pc` is the call that comes next, `step` the stage or the
  deletion it belongs to. `Drop` ends a pass: the reconciler keeps nothing.
- `FetchCluster`, `FetchNothing`: `r.Get` and the branch on the deletion timestamp
  and the finalizer (lines 66-98). `AddFinalizer` and its conflict: 77-82.
- `LookUp`, `RenderFails`, `Write`, `WriteRefused`, `SkipExisting`: one stage, that is
  `getX`, `GenerateX`, `Create` or `Update` (142-476). `Stage(n, i)` is the table of the
  eleven stages with the name each looks up and the name each writes; `AfterStage` holds
  the two `if`s on the spec; `Rendered` the generator and its arguments.
- `GoTo` and `Advance` only move `pc` and `step` on; no line of the code stands behind them.
- `Announce`: the closing event (478).
- `DeleteObject`: `deleteSts`, `deleteSvc`, `deleteDeployment`, `deleteIngress`, in the
  order of 97-120, not-found ignored. `RemoveFinalizer` and its conflict: 122-128.
- `CallFails` and the second branch of `Answered`: any call fails without effect, or
  takes effect and its answer is lost. Both return an error, and controller-runtime puts
  the name back (`Retry`).
- `DeliverCluster`, with `Passes` as `GenerationChangedPredicate`: lines 502-512. An
  object deleted and created anew is delivered as both. `DeliverObjects` refreshes the
  cache of one kind; the generated objects carry no owner reference, so `Owns` maps no
  event about them to a request and `DeliverObjects` leaves `queue` alone.
- `Restart`: the process dies anywhere and a new one lists everything.
- `Rollover`: `up` is the set of processes, `lease` the holder of the lease, `"off"`
  without `--leader-elect` (`main.go`, 67-69 and 135-146). `StartSecond` is the new pod of
  the Deployment, `StopFirst` the end of the old one, `Acquire` the lease changing hands.
  Caches and controllers of a process that stands by start only when it acquires the lease,
  so `Acquire` is a `Restart` of the second manager.
- `Namespaces`: `flag` is the value the running manager was started with; `NamespaceConfigs`
  reads it (105-129), `RestartWith` starts a manager with another one, and
  `DeliverWatched` delivers only what the caches are configured for.

Between any two of these steps users edit, create and delete, other controllers
take off their finalizers (`ForeignRelease`) and objects vanish (`ObjectLost`).

### Abstractions

- One namespace, except in `Namespaces`. The code puts every object into the namespace of
  its cluster.
- Of a generated object: hosts, replicas, volume size, one number for requests and one
  for limits, Ingress rules, the data centre the server asks for, and the scalars
  interpolated without quotes. One label stands for the maps of labels and annotations.
  Images, ports, probes, heap sizes, storage classes and quoted variables are left out.
- A text is a YAML non-string when it is in `NonStrings`; then the conversion fails.
- A cache of generated objects says only whether an object exists: the code compares
  the result of a lookup with `nil` and looks at nothing else.
- The cache of Ingresses is filled at the first lookup instead of at start-up. The
  lookup waits for it, so that it sees at least what a cache filled earlier might.
- `Create` and `Update` carry no resource version for generated objects; the API server
  admits an unconditional `Update` of these kinds. `store[k]` also remembers the uid and
  the generation of the copy it was rendered from. Only `AnnouncedApplied` looks at them.
- Deleting a generated object removes it at once; its pods and its garbage collection are
  not modelled.
- A process that loses its lease exits, and one that is asked to stop renews the lease until
  its worker is done; so the lease never expires under a process that still works. A stop
  is the end of the process at any call. The contexts of the code's calls differ (that of
  `getX` and `deleteX` is never cancelled, that of `Create` and `Update` is), which only
  decides which of these ends happens.
- An entry of `--watch-namespaces` is a name or nothing, with or without blanks around it.
- Events other than the closing one, and logging, are left out.

## Runs

Disturbances are bounded by `Budget`: how many creations, edits, deletions, lost
objects, failing calls (before or after their effect) and restarts. Nothing else
is bounded: versions and generations grow only with these.

| Run | Instance | Shows |
|---|---|---|
| `recreate` | 1 cluster, 2 creations, 1 deletion, 1 fault, 1 restart; 114,100 states | `TypeOK`, `Refining` (the inductive invariant of the proofs, with `NoOrphans`), `ImplementsLifecycle`. The second creation is what makes a stale cache dangerous: it holds an object of the first incarnation |
| `edits` | `CalmSpec`; 1 cluster, with and without metrics cluster and Ingress, other replicas; 2 creations, 1 edit, 1 deletion; 297,286 states | `Working` (the inductive invariant of the proofs) and its parts `NoOrphans`, `HostsResolve`, `AnnouncedApplied`, `NoLostWork`; `NoLostUpdate`: passes run into edits, deletions and a second incarnation, and repeat |
| `settle` | 1 cluster, 2 specs with different volumes, 2 edits, 1 fault; 71,595 states | `Converges`: an update of a volume is refused for ever, and editing the size back heals the cluster |
| `starve` | 2 clusters, one spec never renders; 76,773 states | `Converges`: the failing cluster does not starve the other; `Isolation` while two clusters are built (their teardowns are covered by the theorem `Isolated`) |
| `takeover` | 1 cluster, leader election, 1 deletion, 1 lost object, 1 fault, 1 takeover; 132,960 states | `OneManager`, `ReleasedEventually`: the second process completes what the first one left |
| `overlap` | 1 cluster, no leader election, a foreign finalizer, 1 edit, 1 deletion; 224,086 states | `BothKeepUpdates` |
| `namespaces` | 1 cluster, 2 values of the flag, 1 edit, 1 deletion, 2 restarts; 75,419 states | `HandsOff`, `NamedSettle` |
| `metrics_repeat` | 1 cluster with metrics, 1 fault | refutes `Builds` |
| `metrics_leak` | 1 cluster with metrics, 1 deletion | refutes `MetricsGone` |
| `drift` | 1 cluster, 1 lost object | refutes `Converges` |
| `stale_service` | 1 cluster, 2 creations, 1 deletion | refutes `AnnouncedExists` |
| `rollover` | 1 cluster, no leader election, 1 deletion | refutes `NoOrphans` for two managers |

Why the bounds are enough: the worker keeps nothing between passes, so a fault
more only repeats a pass that the first fault has repeated; two incarnations of a
name are what it takes for a cache to be about the wrong one; clusters meet only in
the names of their objects and in the queue, where two suffice; a rollover has two
processes. `takeover`, `overlap` and `rollover` use specs that fail early in a pass, which
keeps two managers small and leaves every kind of step; what is stated about any spec
is proved (`LeaderIsOne`, `BothKeep`).

`edits` has no fault: a second pass comes from an edit, a conflict or a refused write; with
a fault as well the run has a million states. `AnnouncedApplied`, `HostsResolve` and
`NoLostWork` are proved for any number of faults and restarts.

`AnnouncedApplied`, `HostsResolve` and `NoLostWork` hold while nobody interferes, which is
`Calm`: nobody deletes a generated object behind the operator's back (`drift` shows what
happens otherwise), and a name is used again only after the cache has seen the two Services
go that a pass creates and never updates. Without the latter the cache may show a Service that
is gone, the pass skips it, and `AnnouncedApplied` is broken (`stale_service`). `Calm` restrains
users only: it allows every step of a manager, and any edit, deletion, fault and restart.
`Converges` is checked with one creation per name for the same reason.

`CHECK_DEADLOCK FALSE` everywhere: when the budgets are used up and every pass is done
the operator has nothing to do, as it should.

### Properties

- `NoOrphans`: while the object is absent or without our finalizer, nothing of its
  environment exists. It takes a pass with a stale copy, a deletion and a new creation to
  go wrong; two managers do make it go wrong (`rollover`).
- `AnnouncedApplied`: at the event "Environment created successfully" everything is there
  and rendered from the spec the pass has read, whatever was retried before. It does not
  speak of other edits: the copy may be old by then, and `NoLostWork` takes over.
- `NoLostWork`: once the cache shows the newest spec, an environment that is not what that
  spec asks for is queued, or being worked on with that spec. It does not ask whether the
  spec can be applied: a pass that must fail goes on being repeated.
- `NoLostUpdate`: the two `Update`s of the whole object undo no edit and touch no foreign
  finalizer. `BothKeepUpdates` says the same of two managers at once. `edits` has no foreign
  finalizer, so there it speaks of edits only; `overlap` has one, and `UpdatesKeep` proves
  both halves for any.
- `HostsResolve`: the Services named by the AxonOps server and by the main Cassandra exist
  before their StatefulSets do. The metrics Cassandra is not included: its agent is given
  the host `as-metrics-<name>`, a Service that is never made. Nor is the dashboard: it is
  deployed in stage 3 and names the Service of the server, which comes in stage 9.
- `Isolation`: a pass for one cluster touches no object of another, as long as no cluster is
  called `mt-x` or `metrics-x` beside a cluster `x` (`NamesUnambiguous`). The run has neither a
  metrics cluster nor a teardown; `Isolated` proves it with both.
- `ImplementsLifecycle`: absent, open, guarded, closing, tearing, leaving. Nothing is
  built before the finalizer or once the operator has settled on a deletion; the finalizer
  goes when nothing is left. The mapping reads the phase off the object, the cache and
  `pc`.
- `Converges`: once users stop, every live cluster whose spec renders and is accepted
  becomes, and stays, what its spec asks for. `Acceptable` leaves out the metrics cluster
  (`metrics_repeat` shows why), and a volume size that an existing StatefulSet does not
  have, which the API server refuses for ever. It leaves out as well the specs that can
  never be built: a request above its limit, a name that YAML reads as a number.
- `ReleasedEventually`: a deletion is not stuck on our finalizer, not even that of a cluster
  whose spec can never be built (`takeover` has two such specs).
- `OneManager`: with leader election the two processes together take only steps of one
  manager that is restarted when the lease changes hands, a refinement of `Operator`.
- `HandsOff`: a manager given a list with at least one name changes nothing in other
  namespaces, whatever blanks and empty entries the list has.
- `NamedSettle`: what a manager left half built or half torn down when it was restarted for
  other namespaces is completed once a manager is started that names the namespace.

Each property was also run against a mutant of the code (a guard dropped, a stage or a
deletion skipped, a retry or an event during a pass forgotten, a lease not waited for, an entry not trimmed), listed
in `PROJECT.json`, which it refutes.

### Fairness

`WF(Reconcile)`: the worker keeps running. `WF(DeliverCluster)`,
`WF(DeliverObjects)`: informers catch up, by watching or by relisting. `SF(Dequeue(n))`
for each name: a failing name comes back only after a delay that grows with every failure,
so that it does not overtake another name for ever; it must be strong, because the worker
is busy with other names in between. Users, faults and restarts are not fair: they
may stop. Faults are bounded by the budget, so a liveness run assumes that calls
eventually succeed.

In `Rollover` the same holds of each manager while it is active. `StartSecond` and
`Acquire` are fair under leader election: a Deployment makes a pod that is missing, and an
expired lease is acquired; `StopFirst` is not. In `Namespaces` delivery is fair for what
the running manager watches. `settle` and `starve` have no restart: a restart queues every
cluster anew, and what it may leave behind is checked by `recreate`, `takeover` and
`namespaces`.

## Proofs

All theorems hold for any clusters, specs, budgets and foreign finalizers.

`OperatorProofs!TypeCorrect`: `Spec => []TypeOK`, one step per action.

`VersionProofs!UpdatesKeep`: `Spec => NoLostUpdate`. The invariant is `Versioned`, that is
`TypeOK` and `VersionsFollow`: a copy, cached or in the worker, is not newer than the object,
and equals it when as new. So an `Update` that is not a conflict was made from the object as
it is. The lemmas speak of a manager (`ManagerVersions`) and of anybody else who moves the
objects forward (`OthersVersions`); names play no part.

`OrphanProofs!OrphanFree`: `Spec => []NoOrphans`. `NoOrphans` is not inductive: a worker at
`write` with a copy of an object that is gone would break it. `Inductive` adds to `Versioned`

- `CacheGuarded`: a cached copy that is not being deleted and shows the finalizer says
  the truth. The finalizer goes only after a teardown, and a teardown starts from a copy
  that is being deleted;
- `PassGuarded`: a pass that builds does so under the finalizer; a pass that tears down
  works on a copy of an object being deleted, not newer than what the cache holds. So the
  cache has moved beyond the copy that a later pass could build from;
- `TornDown`: what the teardown is past stays gone. The worker builds nothing while it
  tears down, and it is the only one that builds.

`IsolationProofs!Isolated`: `Spec => Isolation`, from `TypeOK` alone. Gluing a segment to
a name can be undone (`Gluing`), so two objects with the same name belong to the same
cluster, or one cluster is called as the other's metrics cluster.

`LifecycleProofs!RefiningAlways` and `LifecycleImplemented`: `Spec => []Refining` and
`Spec => ImplementsLifecycle`, one step per action of `Operator`, each a step of `Lifecycle`
or none. `Inductive` says when nothing is built; that no environment leaves its teardown
again needs to know what the cache knows:

- `CacheKnows`: the cache shows an incarnation as being deleted only if it is, and it shows
  every incarnation that is guarded. So a settled deletion is not forgotten;
- `PassKnows`: the finalizer is set on a copy the cache still holds, and a guarded
  environment is torn down only once the cache holds its deletion. So setting the finalizer
  never opens a settled environment, and a teardown never acts on an unsettled one;
- `UidsKnown`, `BudgetKept`: a new incarnation is told from every cached one, and an object
  vanishes only if `Lossy` allows it.

`RolloverProofs!BothKeep`: `RolloverSpec => BothKeepUpdates`, with `Versioned` for each of
the two managers. A step of one manager is, to the other, a step of somebody who moves the
objects forward; `ManagerVersions` for the one and `OthersVersions` for the other are the
whole argument.

`CalmProofs!WorkingAlways`, `AnnouncedTrue`, `HostsAlwaysResolve` and `WorkNeverLost`:
`CalmSpec => []Working`, and so for `AnnouncedApplied`, `HostsResolve` and `NoLostWork`. None of
the three is inductive. `Working` adds to them and to `Refining`

- `GenerationsFollow`, with `PassUidKnown`: a copy of the incarnation that is alive has an
  earlier generation, or the same spec. This is what `GenerationChangedPredicate` takes for
  granted when it tells by the generation whether there is anything to do;
- `SeenReal`: until the deletion of a cluster is settled, a Service that the cache shows is
  there. Only a teardown takes it away, and no teardown starts before that; a second
  incarnation starts with a cache that shows none, by `Calm`. So skipping a Service that was
  found is right;
- `PassApplied`: the stages a pass is past are in place, rendered from its copy. The pass goes
  on leaving them alone because the eleven objects have eleven names (`TargetsDiffer`), and
  nobody else writes them. At the last stage this is `AnnouncedApplied`;
- `HostsOwn`: the hosts that the server and the Cassandra are told of are Services of their own
  environment, each the target of an earlier stage (`HostStages`). With `PassApplied` they are
  there when the StatefulSet is written, and no teardown takes them away while the cluster
  lives. That is `HostsResolve`;
- `PassQueued`: a pass that works from an older generation than the cache shows is on the
  queue again. The event that brought the newer copy into the cache put it there, also when
  the finalizer is set in between, which leaves the generation alone.

For `NoLostWork` a step of users is harmless, for it makes the copy in the cache old
(`UserWork`). Of the steps of a manager (`ManagerWork`), a delivery that matters queues the
cluster (`CacheQueues`); a name leaves the queue only for the worker (`QueueKeeps`); and a pass
ends with an error, which queues it again, or with nothing left to do (`PassEnds`, `EndsDone`):
`Announce` comes with `AnnouncedApplied`, and the two others find the cluster going.

`RolloverProofs!LeaderIsOne`: `RolloverSpec => OneManager`. The invariant is `LeaseHeld`: one
of the processes holds the lease, and the first one has ended when it is the second one.
Each action of the manager that holds the lease is the same action of `One`.
`LeaderOrphanFree`, `LeaderLifecycle` and `LeaderWorks`: with leader election `RolloverSpec =>
[]NoOrphans`, the two processes implement `Lifecycle` across the takeover, and while nobody
interferes they announce only what is applied and lose no work, from `OrphanFree`,
`LifecycleImplemented` and `WorkingAlways` about `One`. Beside the first stands the run
`rollover`: without leader election it is false.

`NamespaceProofs!OthersLeftAlone`: `NamespacesSpec => HandsOff`. A list with a name in it is
read as the names in it (`WatchedNamed`), so no cluster of another namespace is queued or
reconciled (`Unnamed`), and `OthersStay` of `IsolationProofs` does the rest.

Assumptions, all evaluated by TLC: `ClustersAssumption` (names are non-empty),
`PrefixesAssumption` (prefixes are texts), `ApiAssumption` (specs have the shape of the API
types; our finalizer is not a foreign one; `None` is no object), `ObjectsAssumption` (`None`
is no generated object), `NamespacesAssumption` (every cluster is in a namespace with a
name). `NamesUnambiguous` is a hypothesis of `OrphanFree`, `Isolated`,
`RefiningAlways`, `LifecycleImplemented`, `OthersLeftAlone`, the theorems of `CalmProofs`,
`LeaderOrphanFree`, `LeaderLifecycle` and `LeaderWorks`: no cluster is called `metrics-x` or `mt-x` for another cluster `x`.
Without it the code is at fault: both clusters would have the same object names.

TLC only: the liveness properties `Converges`, `ReleasedEventually` and `NamedSettle`, which
are out of the prover's reach. Every other property of the passing runs is proved. What
`Converges` rests on is `NoLostWork`: what is not applied is queued, or worked on.

## Findings

1. `metrics_repeat`. The metrics StatefulSet is looked up as `ca-mt-<name>` (line 281) and
   created as `ca-metrics-<name>` (292). A second pass creates it again, is refused, and
   never reaches the server and Cassandra. One lost answer in the first pass is enough for
   an environment that is never built.
2. `metrics_leak`. A deletion removes `ca-mt-<name>` (94), which does not exist; the metrics
   StatefulSet and its Service stay.
3. `drift`. No owner reference, no requeue: `Owns` (508-510) has no effect, and an object
   someone deletes is not restored.
4. `stale_service`. After a deletion and a re-creation a pass may find the old Service in
   the cache, skip it (176, 229), and announce success without it. No later event repairs
   it.
5. `rollover`. Leader election is off by default (`main.go:67`) and the Helm chart passes no
   arguments, so two managers work side by side while the Deployment replaces its pod. One
   of them may hold a copy of the object from before its deletion, and create a StatefulSet
   after the other one has torn down and released the cluster. Nobody deletes it.

Seen in the code and not given a run: `spec.cassandra.persistentVolume` of the README is not
read, the main Cassandra gets the volume of the metrics section (423); a volume size that is
edited is refused by the API server for ever, and the stages after it are never applied,
until it is edited back (`settle` covers the latter); `spec.axonops.dashboard.replicas` is
ignored (`dashboard.go:213`); the AxonOps server is told `CQL_LOCAL_DC=axonops1` whatever the
metrics cluster is called (`axon-server.go:165`), while the default of line 289 is given
to the main cluster; default requests and limits are unreachable, because an absent
quantity prints as `0`; an Ingress stays when it is switched off, until the environment is
deleted; the Helm chart's `values.yaml` suggests a flag `leader-election-id` that `main`
does not have.

## Not modelled

- Flags other than `--leader-elect` and `--watch-namespaces`; TLS, metrics and probes.
- A value of `--watch-namespaces` without any name in it (`","`), which means every
  namespace: `HandsOff` leaves it out.
- A lease that expires under a process that still works (a paused process, a skewed clock):
  how controller-runtime guards against it is not code of the repository.
- Names that collide (see `NamesUnambiguous`), and clusters of one name in two namespaces.
- `GenerateCassandraHeadlessServiceConfig` and the helpers of `utils` for maps, regular
  expressions and hashes: no code calls them.
- The status: no line that runs writes it.
- Generated deep copies, the Helm chart, kustomize files and tests.

## Plan

1. What the passing runs state of liveness, brought as far as safety goes: that a pass comes
   to its end after a bounded number of calls, and that a teardown removes something of the
   environment or moves on.
2. A run for colliding names.
