----------------------------- MODULE Refinement -----------------------------
(***************************************************************************)
(* How the states of Operator are states of Lifecycle, and the invariant   *)
(* that makes every step of the one a step of the other, or none.          *)
(***************************************************************************)
EXTENDS OperatorProperties

\* A generated object that exists is told from one that does not.
ASSUME ObjectsAssumption == None \notin Objects

\* The deletion of n is settled: the cache knows of it, and no pass that started
\* without knowing is under way.  From here on nothing of n is built.
Settled(n) == /\ crCache[n] # None
              /\ crCache[n].uid = cr[n].uid
              /\ crCache[n].deleting
              /\ ~(req = n /\ pc \in {"lookup", "write"})

Phase(n) ==
    CASE cr[n] = None                                              -> "absent"
      [] Live(n) /\ ~Guarded(cr[n])                                -> "open"
      [] Live(n) /\ Guarded(cr[n])                                 -> "guarded"
      [] Terminating(cr[n]) /\ Guarded(cr[n]) /\ ~Settled(n)       -> "closing"
      [] Terminating(cr[n]) /\ Guarded(cr[n]) /\ Settled(n)        -> "tearing"
      [] Terminating(cr[n]) /\ ~Guarded(cr[n])                     -> "leaving"

Environment == INSTANCE Lifecycle
    WITH Objects <- Keys,
         Lossy <- Budget["lose"] > 0,
         phase <- [n \in Clusters |-> Phase(n)],
         kids  <- [n \in Clusters |-> {k \in Kids(n) : store[k] # None}]

\* With its cache, its retries and its lost answers, the operator leads every
\* environment through the life that Lifecycle describes: guarded before it is
\* built, never rebuilt once its teardown has begun, released when it is gone.
ImplementsLifecycle == Environment!Spec

-----------------------------------------------------------------------------
\* The inductive invariant behind ImplementsLifecycle.

\* No uid is newer than the newest resource version.
UidsKnown ==
    \A n \in Clusters :
        /\ cr[n] # None => cr[n].uid <= rev
        /\ crCache[n] # None => crCache[n].uid <= rev

\* What the cache knows of the incarnation that is alive: that it is being deleted
\* only when it is, and that it exists once it is guarded.
CacheKnows ==
    \A n \in Clusters :
        /\ /\ cr[n] # None /\ crCache[n] # None
           /\ crCache[n].uid = cr[n].uid /\ crCache[n].deleting
           => cr[n].deleting
        /\ Guarded(cr[n]) => crCache[n] # None /\ crCache[n].uid = cr[n].uid

\* What a pass may rely on: it sets the finalizer on a copy that the cache still
\* holds, and it tears a guarded environment down only when the cache holds the
\* request to delete it.
PassKnows ==
    /\ pc = "guard" =>
          /\ ~obj.deleting /\ ~Guarded(obj)
          /\ cr[req] # None /\ obj.rv = cr[req].rv => crCache[req] = cr[req]
    /\ pc \in {"teardown", "release"} /\ Guarded(cr[req]) => crCache[req].deleting

\* Disturbances are only ever used up.
BudgetKept == \A d \in Disturbances : budget[d] <= Budget[d]

\* What makes every step of the operator one of Lifecycle, or none (Reconcile,
\* lines 66-129, next to a cache that lags).
Refining == Inductive /\ UidsKnown /\ CacheKnows /\ PassKnows /\ BudgetKept
=============================================================================
