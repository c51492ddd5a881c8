-------------------------------- MODULE Calm --------------------------------
(***************************************************************************)
(* The operator while nobody interferes with what it generates, and the    *)
(* invariant behind what it promises then: an announced environment is     *)
(* complete, hosts resolve, no work is lost.                               *)
(***************************************************************************)
EXTENDS Refinement

\* The Services a pass only creates: it trusts the lookup that finds them.
TrustedKids(n) == {Svc(Es(n)), Svc(Ds(n))}

\* Nobody deletes a generated object behind the operator's back, and the name of
\* a cluster is used again only after the cache has seen the Services of its former
\* environment go.
Calm ==
    /\ \A k \in Keys : ~ObjectLost(k)
    /\ \A n \in Clusters :
          cr[n] = None /\ cr'[n] # None => \A k \in TrustedKids(n) : ~seen[k]

CalmSpec == Init /\ [][Next /\ Calm]_vars

-----------------------------------------------------------------------------
\* The inductive invariant behind AnnouncedApplied, HostsResolve and NoLostWork.

\* No copy of the worker's has a uid newer than the newest resource version.
PassUidKnown == pc \notin {"idle", "fetch"} => obj.uid <= rev

\* A copy is an earlier generation of the object, or has its spec.
Traces(copy, c) == copy # None /\ c # None /\ copy.uid = c.uid =>
                      copy.gen <= c.gen /\ (copy.gen = c.gen => copy.spec = c.spec)

\* The generation tells specs apart, as GenerationChangedPredicate takes for granted.
GenerationsFollow ==
    /\ \A n \in Clusters : Traces(crCache[n], cr[n])
    /\ pc \notin {"idle", "fetch"} => Traces(obj, cr[req])

\* Until the deletion of a cluster is settled, a Service the cache shows exists.
SeenReal ==
    \A n \in Clusters : cr[n] # None /\ ~Settled(n) =>
        \A k \in TrustedKids(n) : seen[k] => store[k] # None

\* What stage i of a pass is for has been done.
StageMade(i) ==
    Wanted(obj.spec, i) =>
        LET made == store[Target(req, i)]
        IN  /\ made # None
            /\ Stage(req, i).update =>
                  made = [uid |-> obj.uid, gen |-> obj.gen,
                          body |-> Rendered(req, obj.spec, i)]

\* What a pass is past is in place.
PassApplied ==
    pc \in {"lookup", "write"} => \A i \in StageIds : i < step => StageMade(i)

\* The hosts a server or a Cassandra is told of are Services of its own environment.
HostsOwn ==
    \A n \in Clusters : \A i \in {8, 10} :
        store[Target(n, i)] # None =>
            \A host \in store[Target(n, i)].body.hosts :
                Svc(host) \in Kids(n) \cup MetricsKids(n)

\* A pass that works from an older generation than the cache shows is repeated.
PassQueued ==
    pc \notin {"idle", "fetch"} /\ crCache[req] # None =>
        SameSpec(obj, crCache[req]) \/ req \in queue

\* What makes the three properties inductive: a pass leaves in place what it is
\* past, and whatever makes it out of date puts its cluster on the queue (Reconcile,
\* lines 144-480, next to the watches of SetupWithManager, lines 502-512).
Working ==
    /\ Refining
    /\ PassUidKnown /\ GenerationsFollow /\ SeenReal /\ PassApplied
    /\ HostsOwn /\ PassQueued
    /\ AnnouncedApplied /\ HostsResolve /\ NoLostWork
=============================================================================
