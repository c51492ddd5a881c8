------------------------- MODULE OperatorProperties -------------------------
(***************************************************************************)
(* What the operator must get right, stated over Operator.                 *)
(***************************************************************************)
EXTENDS Operator

Live(n)      == cr[n] # None /\ ~cr[n].deleting
Wants(n, i)  == Wanted(cr[n].spec, i)
Target(n, i) == Stage(n, i).target

\* A spec the operator can apply: it renders and the API server accepts it, which
\* it does not when the volume of an existing StatefulSet has another size.  The
\* metrics cluster is left out.
Acceptable(n) ==
    /\ ~cr[n].spec.server.metricsEnabled
    /\ \A i \in StageIds : Wants(n, i) =>
          LET body == Rendered(n, cr[n].spec, i)
          IN  /\ Converts(body)
              /\ Target(n, i).kind \in {"StatefulSet", "Deployment"} =>
                    body.request <= body.limit
              /\ Target(n, i).kind = "StatefulSet" /\ store[Target(n, i)] # None =>
                    body.size = store[Target(n, i)].body.size
              /\ Target(n, i).kind = "Ingress" => body.rules # {}

\* The environment of n is what its spec asks for.
Applied(n) ==
    \A i \in StageIds : Wants(n, i) =>
        LET made == store[Target(n, i)]
        IN  /\ made # None
            /\ Stage(n, i).update => made.body = Rendered(n, cr[n].spec, i)

\* Two copies of one incarnation with the same spec.
SameSpec(c, d) == c # None /\ d # None /\ c.uid = d.uid /\ c.gen = d.gen

-----------------------------------------------------------------------------
\* Safety.

\* No object of an environment outlives its AxonOpsCassandra object, and none
\* is made before the finalizer is on it: while it is absent or unguarded,
\* nothing of its environment exists (the finalizer of Reconcile, lines 74-130).
NoOrphans ==
    \A n \in Clusters : ~Guarded(cr[n]) => \A k \in Kids(n) : store[k] = None

\* When the pass announces "Environment created successfully" every object that
\* the spec it read asks for exists, rendered from that very spec.  A Service
\* the pass only creates may be older, but it is there (Reconcile, line 478).
AnnouncedApplied ==
    pc = "announce" =>
        \A i \in StageIds : Wanted(obj.spec, i) =>
            LET made == store[Target(req, i)]
            IN  /\ made # None
                /\ Stage(req, i).update =>
                      made = [uid |-> obj.uid, gen |-> obj.gen,
                              body |-> Rendered(req, obj.spec, i)]

\* The AxonOps server, and the Cassandra of the environment, are never deployed
\* before the Services their environment variables name: while the cluster
\* lives, the hosts of these StatefulSets resolve (the order of steps 1 to 5).
HostsResolve ==
    \A n \in Clusters : Live(n) =>
        \A i \in {8, 10} :
            store[Target(n, i)] # None =>
                \A host \in store[Target(n, i)].body.hosts : store[Svc(host)] # None

\* No wake-up is lost: while the cache has the newest spec of a live cluster and
\* the environment is not what that spec asks for, the cluster is queued or a
\* pass with that spec is under way, although events that leave the generation
\* alone are filtered out and a failed pass relies on its error alone to be
\* repeated (SetupWithManager, lines 502-512, and every "return ..., err").
NoLostWork ==
    \A n \in Clusters :
        Live(n) /\ SameSpec(crCache[n], cr[n]) /\ ~Applied(n) =>
            n \in queue \/ (req = n /\ (pc = "fetch" \/ SameSpec(obj, cr[n])))

\* What a step does to the object of n leaves its spec and the finalizers of
\* others as they are.
TouchesOnlyFinalizer(n) ==
    cr'[n] # cr[n] =>
       /\ cr[n].fin \ {Finalizer} = IF cr'[n] = None THEN {}
                                    ELSE cr'[n].fin \ {Finalizer}
       /\ cr'[n] # None => cr'[n].spec = cr[n].spec

\* Adding and removing the finalizer writes the whole cached object back, yet it
\* never undoes an edit, and takes away no finalizer but its own (Reconcile,
\* lines 77-82 and 123-126).
NoLostUpdate == [][pc' # pc => \A n \in Clusters : TouchesOnlyFinalizer(n)]_vars

\* A pass for one cluster touches no other cluster's objects (the names of all
\* generated objects, Reconcile lines 84-120 and 144-455).
Isolation ==
    [][workerVars' # workerVars /\ store' # store =>
          \A m \in Clusters \ {req} :
             \A k \in Kids(m) \cup MetricsKids(m) : store'[k] = store[k]]_vars

-----------------------------------------------------------------------------
\* The inductive invariant behind NoOrphans.

\* A copy is not newer than the object, and it is the object when it is as new.
Follows(copy, c) == copy # None /\ c # None =>
                       copy.rv <= c.rv /\ (copy.rv = c.rv => copy = c)

VersionsFollow ==
    /\ \A n \in Clusters :
          /\ cr[n] # None => cr[n].rv <= rev
          /\ crCache[n] # None => crCache[n].rv <= rev
          /\ Follows(crCache[n], cr[n])
    /\ pc \notin {"idle", "fetch"} => obj.rv <= rev /\ Follows(obj, cr[req])

\* A cached copy that a pass would build from says the truth about the finalizer.
CacheGuarded ==
    \A n \in Clusters :
        Guarded(crCache[n]) /\ ~crCache[n].deleting => Guarded(cr[n])

\* A pass that builds is guarded.  A pass that tears down works on a copy of an
\* object being deleted, and the cache has not forgotten that copy.
PassGuarded ==
    /\ pc \in {"lookup", "write"} => Guarded(cr[req])
    /\ pc \in {"teardown", "release"} =>
          obj.deleting /\ (crCache[req] # None => obj.rv <= crCache[req].rv)

\* The deletions of Kids(n): the two of the metrics cluster are not among them.
KidIds == StageIds \ {7, 8}

\* What the teardown is past stays gone.
TornDown ==
    \A i \in KidIds :
        \/ pc = "teardown" /\ i < step
        \/ pc = "release"
        => store[Doomed(req, i)] = None

\* What makes NoOrphans inductive: whatever copy a pass works from, old or new,
\* it builds only under the finalizer, and what a teardown is past stays gone
\* until the finalizer goes (Reconcile, lines 66-129).
Inductive ==
    TypeOK /\ VersionsFollow /\ CacheGuarded /\ PassGuarded /\ TornDown /\ NoOrphans

-----------------------------------------------------------------------------
\* Liveness, under Fairness.

\* Once users stop, every cluster that can be applied is, and stays so, whatever
\* failed on the way and whatever becomes of the other clusters ("move the
\* current state of the cluster closer to the desired state", lines 52-53).
Converges == <>[](\A n \in Clusters : Live(n) /\ Acceptable(n) => Applied(n))

\* A deletion is never stuck on our finalizer: once requested, the finalizer is
\* eventually gone (Reconcile, lines 98-127).
ReleasedEventually ==
    \A n \in Clusters :
        (Terminating(cr[n]) /\ Guarded(cr[n])) ~> ~(Terminating(cr[n]) /\ Guarded(cr[n]))
-----------------------------------------------------------------------------
(***************************************************************************)
(* What a comment, a message or a document says of the program and the     *)
(* code does not do: each is refuted by a run of its own.                  *)
(***************************************************************************)

\* "perform operations to make the cluster state reflect the state specified by
\* the user" (Reconcile, lines 55-57), for every spec and not only for those
\* without a metrics cluster: the spec of a live cluster is eventually applied.
Builds == <>[](\A n \in Clusters : Live(n) => Applied(n))

\* "Environment created successfully" (line 478): the announced environment is
\* complete.
AnnouncedExists ==
    pc = "announce" =>
        \A i \in StageIds : Wanted(obj.spec, i) => store[Target(req, i)] # None

\* "our finalizer is present, so lets handle any external dependency" (line 99):
\* the metrics cluster, too, is gone once the finalizer is.
MetricsGone ==
    \A n \in Clusters : ~Guarded(cr[n]) => \A k \in MetricsKids(n) : store[k] = None
=============================================================================
