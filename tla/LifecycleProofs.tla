-------------------------- MODULE LifecycleProofs --------------------------
(***************************************************************************)
(* Proof that the operator implements Lifecycle.  The invariant is         *)
(* Refining of Refinement.                                                 *)
(***************************************************************************)
EXTENDS Refinement, IsolationProofs

-----------------------------------------------------------------------------
\* The steps of Lifecycle, as what happens to one environment.

\* The objects of the environment of n that exist.
Left(n) == {k \in Kids(n) : store[k] # None}

Rests(n) == Phase(n)' = Phase(n) /\ Left(n)' = Left(n)

Becomes(n, from, to) == Phase(n) = from /\ Phase(n)' = to /\ Left(n)' = Left(n)

\* The environment of n is led one step further.
Led(n) ==
    \/ Rests(n)
    \/ Becomes(n, "absent", "open")
    \/ Becomes(n, "open", "guarded")
    \/ Becomes(n, "open", "absent") \/ Becomes(n, "open", "leaving")
    \/ Becomes(n, "guarded", "closing")
    \/ Becomes(n, "leaving", "absent")
    \/ Left(n) = {} /\ (Becomes(n, "tearing", "absent") \/ Becomes(n, "tearing", "leaving"))
    \/ \E k \in Keys :
          /\ Left(n)' = Left(n) \cup {k}
          /\ \/ Phase(n) \in {"guarded", "closing"} /\ Phase(n)' = Phase(n)
             \/ Phase(n) = "closing" /\ Phase(n)' = "tearing"
    \/ \E k \in Keys :
          /\ Left(n)' = Left(n) \ {k}
          /\ Phase(n)' = Phase(n)
          /\ Phase(n) = "tearing" \/ Budget["lose"] > 0

\* The two functions the mapping gives to Lifecycle.
LEMMA OneChanges ==
    ASSUME NEW n \in Clusters, \A m \in Clusters \ {n} : Rests(m)
    PROVE  /\ [m \in Clusters |-> Phase(m)]' =
                  [[m \in Clusters |-> Phase(m)] EXCEPT ![n] = Phase(n)']
           /\ [m \in Clusters |-> Left(m)]' =
                  [[m \in Clusters |-> Left(m)] EXCEPT ![n] = Left(n)']
  BY DEF Rests

\* A step that leads one environment further is one of Lifecycle.
LEMMA OneLed ==
    ASSUME NEW n \in Clusters, Led(n), \A m \in Clusters \ {n} : Rests(m)
    PROVE  [Environment!Next]_(Environment!vars)
  <1> DEFINE ph == [m \in Clusters |-> Phase(m)]
             kd == [m \in Clusters |-> Left(m)]
  <1>1. /\ ph' = [ph EXCEPT ![n] = Phase(n)'] /\ kd' = [kd EXCEPT ![n] = Left(n)']
        /\ ph[n] = Phase(n) /\ kd[n] = Left(n)
    BY OneChanges
  <1>2. ASSUME NEW from, NEW to, Becomes(n, from, to)
        PROVE  ph[n] = from /\ ph' = [ph EXCEPT ![n] = to] /\ kd' = kd
    BY <1>1, <1>2 DEF Becomes
  <1> USE DEF Left, Environment!Next, Environment!Move
  <1>3. CASE Rests(n)
    <2>1. ph' = ph /\ kd' = kd
      BY <1>1, <1>3 DEF Rests
    <2> QED
      BY <2>1 DEF Environment!vars
  <1>4. CASE Becomes(n, "absent", "open")
    BY <1>2, <1>4 DEF Environment!Submit
  <1>5. CASE Becomes(n, "open", "guarded")
    BY <1>2, <1>5 DEF Environment!Guard
  <1>6. CASE Becomes(n, "open", "absent") \/ Becomes(n, "open", "leaving")
    BY <1>2, <1>6 DEF Environment!Withdraw
  <1>7. CASE Becomes(n, "guarded", "closing")
    BY <1>2, <1>7 DEF Environment!Close
  <1>8. CASE Becomes(n, "leaving", "absent")
    BY <1>2, <1>8 DEF Environment!Expire
  <1>9. CASE /\ Left(n) = {}
             /\ Becomes(n, "tearing", "absent") \/ Becomes(n, "tearing", "leaving")
    BY <1>1, <1>2, <1>9 DEF Environment!Release
  <1>10. ASSUME NEW k \in Keys, Left(n)' = Left(n) \cup {k},
                \/ Phase(n) \in {"guarded", "closing"} /\ Phase(n)' = Phase(n)
                \/ Phase(n) = "closing" /\ Phase(n)' = "tearing"
         PROVE  Environment!Next
    <2>1. kd' = [kd EXCEPT ![n] = kd[n] \cup {k}]
      BY <1>1, <1>10
    <2>2. \/ ph[n] \in {"guarded", "closing"} /\ ph' = ph
          \/ ph[n] = "closing" /\ ph' = [ph EXCEPT ![n] = "tearing"]
      BY <1>1, <1>10
    <2>3. Environment!Build(n, k)
      BY <2>1, <2>2 DEF Environment!Build
    <2> QED
      BY <2>3
  <1>11. ASSUME NEW k \in Keys, Left(n)' = Left(n) \ {k}, Phase(n)' = Phase(n),
                Phase(n) = "tearing" \/ Budget["lose"] > 0
         PROVE  Environment!Next
    <2>1. kd' = [kd EXCEPT ![n] = kd[n] \ {k}] /\ ph' = ph
      BY <1>1, <1>11
    <2>2. Environment!Tear(n, k) \/ Environment!Lose(n, k)
      BY <1>1, <1>11, <2>1 DEF Environment!Tear, Environment!Lose
    <2> QED
      BY <2>2
  <1> QED
    BY <1>3, <1>4, <1>5, <1>6, <1>7, <1>8, <1>9, <1>10, <1>11 DEF Led

\* A step in which the operator takes notice of deletions is one of Lifecycle.
LEMMA SomeSettle ==
    ASSUME \A n \in Clusters :
              /\ Left(n)' = Left(n)
              /\ Phase(n)' = Phase(n) \/ (Phase(n) = "closing" /\ Phase(n)' = "tearing")
    PROVE  Environment!Next
  <1> DEFINE ph == [m \in Clusters |-> Phase(m)]
             kd == [m \in Clusters |-> Left(m)]
             S  == {m \in Clusters : Phase(m) = "closing" /\ Phase(m)' = "tearing"}
  <1>1. kd' = kd
    OBVIOUS
  <1>2. /\ \A m \in S : ph[m] = "closing"
        /\ ph' = [m \in Clusters |-> IF m \in S THEN "tearing" ELSE ph[m]]
    OBVIOUS
  <1>3. Environment!Settle(S)
    BY <1>1, <1>2 DEF Environment!Settle, Left
  <1>4. S \in SUBSET Clusters
    OBVIOUS
  <1> QED
    BY <1>3, <1>4 DEF Environment!Next

-----------------------------------------------------------------------------
\* How the life of an AxonOpsCassandra object goes on.

\* It stays, goes, comes into being, or changes without coming to life again.
Evolves(n) ==
    \/ cr'[n] = cr[n]
    \/ cr[n] # None /\ cr'[n] = None
    \/ cr[n] = None /\ cr'[n] # None /\ cr'[n].uid = rev + 1 /\ ~cr'[n].deleting
    \/ /\ cr[n] # None /\ cr'[n] # None /\ cr'[n].uid = cr[n].uid
       /\ cr[n].deleting => cr'[n].deleting

LEMMA UpdateEvolves ==
    ASSUME TypeOK, NEW m \in Clusters, NEW copy \in CustomResources, cr[m] # None,
           Update(m, copy)
    PROVE  /\ Evolves(m)
           /\ cr'[m] # None => cr'[m].uid = cr[m].uid /\ cr'[m].deleting = cr[m].deleting
           /\ cr'[m] = None => cr[m].deleting
           /\ \A n \in Clusters \ {m} : cr'[n] = cr[n]
           /\ rev' = rev + 1
  <1> DEFINE new == Updated(cr[m], copy)
  <1>1. cr[m] \in CustomResources /\ rev \in Nat
    BY DEF TypeOK, ApiTypeOK
  <1>2. new \in CustomResources
    BY <1>1, UpdatedType
  <1>3. new.uid = cr[m].uid /\ new.deleting = cr[m].deleting
    BY <1>1 DEF Updated, CustomResources
  <1>4. cr' = [cr EXCEPT ![m] = Stored(new)] /\ rev' = rev + 1
    BY DEF Update
  <1> HIDE DEF new
  <1>5. cr'[m] = Stored(new) /\ \A n \in Clusters \ {m} : cr'[n] = cr[n]
    BY <1>4 DEF TypeOK, ApiTypeOK
  <1> QED
    BY <1>2, <1>3, <1>4, <1>5, ApiAssumption DEF Evolves, Stored

\* Users and other controllers change one object, of either kind.
LEMMA UserEvolves ==
    ASSUME TypeOK, UserNext
    PROVE  \/ /\ UNCHANGED store
              /\ \E m \in Clusters :
                    Evolves(m) /\ \A n \in Clusters \ {m} : cr'[n] = cr[n]
           \/ UNCHANGED <<cr, rev>> /\ \E k \in Keys : ObjectLost(k)
  <1> DEFINE Goal == /\ UNCHANGED store
                     /\ \E m \in Clusters :
                           Evolves(m) /\ \A n \in Clusters \ {m} : cr'[n] = cr[n]
  <1>0. rev \in Nat /\ cr \in [Clusters -> CustomResources \cup {None}]
    BY DEF TypeOK, ApiTypeOK
  <1>1. ASSUME NEW m \in Clusters, NEW spec \in Specs, NEW foreign \in SUBSET ForeignFinalizers,
               UserCreates(m, spec, foreign)
        PROVE  Goal
    <2> DEFINE new == [ uid |-> rev + 1, rv |-> rev + 1, gen |-> 1, deleting |-> FALSE,
                        fin |-> foreign, spec |-> spec ]
    <2>1. cr[m] = None /\ cr' = [cr EXCEPT ![m] = new] /\ store' = store
      BY <1>1 DEF UserCreates
    <2>2. new \in CustomResources
      BY <1>0 DEF CustomResources
    <2>3. new.uid = rev + 1 /\ ~new.deleting
      OBVIOUS
    <2> HIDE DEF new
    <2> QED
      BY <1>0, <2>1, <2>2, <2>3, ApiAssumption DEF Evolves
  <1>2. ASSUME NEW m \in Clusters, NEW spec \in Specs, UserEdits(m, spec)
        PROVE  Goal
    <2> DEFINE new == Updated(cr[m], [cr[m] EXCEPT !.spec = spec])
    <2>1. cr[m] # None /\ cr' = [cr EXCEPT ![m] = new] /\ store' = store
      BY <1>2 DEF UserEdits
    <2>2. cr[m] \in CustomResources /\ [cr[m] EXCEPT !.spec = spec] \in CustomResources
      BY <1>0, <2>1 DEF CustomResources
    <2>3. new \in CustomResources
      BY <1>0, <2>2, UpdatedType
    <2>4. new.uid = cr[m].uid /\ new.deleting = cr[m].deleting
      BY <2>2 DEF Updated, CustomResources
    <2> HIDE DEF new
    <2> QED
      BY <1>0, <2>1, <2>3, <2>4, ApiAssumption DEF Evolves
  <1>3. ASSUME NEW m \in Clusters, UserDeletes(m)
        PROVE  Goal
    <2> DEFINE new == Marked(cr[m])
    <2>1. cr[m] # None /\ cr' = [cr EXCEPT ![m] = Stored(new)] /\ store' = store
      BY <1>3 DEF UserDeletes
    <2>2. new \in CustomResources
      BY <1>0, <2>1, MarkedType
    <2>3. new.uid = cr[m].uid /\ new.deleting
      BY <1>0, <2>1 DEF Marked, CustomResources
    <2> HIDE DEF new
    <2> QED
      BY <1>0, <2>1, <2>2, <2>3, ApiAssumption DEF Evolves, Stored
  <1>4. ASSUME NEW m \in Clusters, ForeignRelease(m)
        PROVE  Goal
    <2>1. cr[m] # None /\ cr[m] \in CustomResources /\ store' = store
      BY <1>0, <1>4 DEF ForeignRelease, Terminating
    <2>2. PICK f \in cr[m].fin \cap ForeignFinalizers :
              Update(m, [cr[m] EXCEPT !.fin = cr[m].fin \ {f}])
      BY <1>4 DEF ForeignRelease
    <2>3. [cr[m] EXCEPT !.fin = cr[m].fin \ {f}] \in CustomResources
      BY <2>1 DEF CustomResources
    <2> QED
      BY <2>1, <2>2, <2>3, UpdateEvolves
  <1>5. ASSUME NEW k \in Keys, ObjectLost(k)
        PROVE  UNCHANGED <<cr, rev>>
    BY <1>5 DEF ObjectLost
  <1> QED
    BY <1>1, <1>2, <1>3, <1>4, <1>5 DEF UserNext

\* Disturbances are only used up.
LEMMA SpendKeeps ==
    ASSUME TypeOK, BudgetKept, NEW d \in Disturbances, Spend(d)
    PROVE  BudgetKept'
  <1>1. /\ budget \in [Disturbances -> Nat] /\ Budget \in [Disturbances -> Nat]
        /\ budget' = [budget EXCEPT ![d] = budget[d] - 1]
    BY ApiAssumption DEF TypeOK, ApiTypeOK, Spend
  <1>2. ASSUME NEW e \in Disturbances
        PROVE  budget'[e] <= Budget[e]
    BY <1>1 DEF BudgetKept
  <1> QED
    BY <1>2 DEF BudgetKept

LEMMA BudgetStep ==
    ASSUME TypeOK, BudgetKept, [Next]_vars
    PROVE  BudgetKept'
  <1>1. UNCHANGED budget \/ \E d \in Disturbances : Spend(d)
    BY DEF Next, vars, managerVars, workerVars, apiVars, UserNext, UserCreates, UserEdits,
           UserDeletes, ForeignRelease, ObjectLost, ManagerNext, Running, Reconcile,
           DeliverCluster, DeliverObjects, Restart, Dequeue, FetchNothing, FetchCluster,
           AddFinalizer, AddFinalizerConflict, SkipExisting, LookUp, RenderFails, Write,
           WriteRefused, Announce, DeleteObject, RemoveFinalizer, RemoveFinalizerConflict,
           CallFails, Answered, Disturbances
  <1>2. CASE UNCHANGED budget
    BY <1>2 DEF BudgetKept
  <1> QED
    BY <1>1, <1>2, SpendKeeps

-----------------------------------------------------------------------------
\* The steps keep what the refinement needs to know.

Knowing == UidsKnown /\ CacheKnows /\ PassKnows

\* The uids of an object that evolves.
LEMMA UidMoved ==
    ASSUME TypeOK, TypeOK', UidsKnown, NEW n \in Clusters, Evolves(n), Moved(n)
    PROVE  cr'[n] # None => cr'[n].uid <= rev'
  <1>1. rev \in Nat /\ rev' \in Nat /\ (cr[n] # None => cr[n].uid \in Nat)
    BY DEF TypeOK, ApiTypeOK, CustomResources
  <1>2. rev <= rev' /\ (cr[n] = None /\ cr'[n] # cr[n] /\ cr'[n] # None => rev' = rev + 1)
    BY DEF Moved
  <1> QED
    BY <1>1, <1>2 DEF UidsKnown, Evolves

LEMMA UserKnows ==
    ASSUME Refining, TypeOK', UserNext, UNCHANGED managerVars
    PROVE  Knowing'
  <1>1. TypeOK /\ UNCHANGED <<crCache, pc, req, obj>>
    BY DEF Refining, Inductive, managerVars, workerVars
  <1>2. \A n \in Clusters : Moved(n) /\ (Guarded(cr'[n]) <=> Guarded(cr[n]))
    BY <1>1, UserMoves
  <1>3. \A n \in Clusters : Evolves(n)
    BY <1>1, UserEvolves DEF Evolves
  <1>4. rev \in Nat /\ rev' \in Nat
    BY <1>1 DEF TypeOK, ApiTypeOK
  <1>5. \A n \in Clusters : crCache[n] # None => crCache[n].uid \in Nat
    BY <1>1 DEF TypeOK, CustomResources
  <1>6. UidsKnown'
    <2>1. ASSUME NEW n \in Clusters
          PROVE  crCache[n] # None => crCache[n].uid <= rev'
      BY <1>2, <1>4, <1>5 DEF Refining, UidsKnown, Moved
    <2> QED
      BY <1>1, <1>2, <1>3, <2>1, UidMoved DEF Refining, UidsKnown
  <1>7. CacheKnows'
    <2> SUFFICES ASSUME NEW n \in Clusters
                 PROVE  /\ /\ cr'[n] # None /\ crCache[n] # None
                           /\ crCache[n].uid = cr'[n].uid /\ crCache[n].deleting
                           => cr'[n].deleting
                        /\ Guarded(cr'[n]) => crCache[n] # None /\ crCache[n].uid = cr'[n].uid
      BY <1>1 DEF CacheKnows, Guarded
    <2>1. crCache[n] # None => crCache[n].uid # rev + 1
      BY <1>4, <1>5 DEF Refining, UidsKnown
    <2>2. Guarded(cr'[n]) => cr'[n] # None /\ cr[n] # None /\ Guarded(cr[n])
      BY <1>2 DEF Guarded
    <2> QED
      BY <1>3, <2>1, <2>2 DEF Evolves, Refining, CacheKnows
  <1>8. PassKnows'
    <2>1. pc \in {"guard", "teardown", "release"} => req \in Clusters /\ obj.rv \in Nat
      BY <1>1, PassType DEF CustomResources
    <2>2. pc = "guard" /\ cr'[req] # None /\ obj.rv = cr'[req].rv => cr'[req] = cr[req]
      BY <1>2, <1>4, <2>1 DEF Refining, Inductive, VersionsFollow, Moved
    <2> QED
      BY <1>1, <1>2, <2>1, <2>2 DEF Refining, PassKnows, Guarded
  <1> QED
    BY <1>6, <1>7, <1>8 DEF Knowing

LEMMA DeliverKnows ==
    ASSUME Refining, NEW n \in Clusters, DeliverCluster(n)
    PROVE  Knowing'
  <1>1. /\ TypeOK /\ UNCHANGED <<cr, rev, pc, req, obj>>
        /\ crCache' = [crCache EXCEPT ![n] = cr[n]]
    BY DEF Refining, Inductive, DeliverCluster, apiVars, workerVars
  <1>2. \A m \in Clusters : crCache'[m] = IF m = n THEN cr[n] ELSE crCache[m]
    BY <1>1 DEF TypeOK
  <1>3. UidsKnown' /\ CacheKnows'
    BY <1>1, <1>2 DEF Refining, UidsKnown, CacheKnows, Guarded
  <1>4. PassKnows'
    <2>1. pc \in {"guard", "teardown", "release"} => req \in Clusters
      BY <1>1, PassType
    <2>2. pc \in {"teardown", "release"} /\ Guarded(cr[req]) => cr[req].deleting
      BY <2>1 DEF Refining, PassKnows, CacheKnows, Guarded
    <2> QED
      BY <1>1, <1>2, <2>1, <2>2 DEF Refining, PassKnows, Guarded
  <1> QED
    BY <1>3, <1>4 DEF Knowing

\* A step that ends a pass, or begins one, and leaves the AxonOpsCassandra objects
\* alone.
LEMMA RestKnows ==
    ASSUME Refining, UNCHANGED <<cr, rev>>, crCache' \in {crCache, cr},
           pc' \in {"idle", "fetch"}
    PROVE  Knowing'
  <1>1. UidsKnown'
    BY DEF Refining, UidsKnown
  <1>2. CacheKnows'
    BY DEF Refining, CacheKnows, Guarded
  <1>3. PassKnows'
    BY DEF PassKnows
  <1> QED
    BY <1>1, <1>2, <1>3 DEF Knowing

LEMMA FetchKnows ==
    ASSUME Refining, FetchCluster
    PROVE  Knowing'
  <1>1. /\ TypeOK /\ UNCHANGED <<cr, rev, crCache, req>>
        /\ req \in Clusters /\ crCache[req] # None /\ obj' = crCache[req]
    BY DEF Refining, Inductive, FetchCluster, apiVars, TypeOK, WorkerTypeOK
  <1>2. \/ obj'.deleting /\ pc' = "teardown"
        \/ pc' = "lookup"
        \/ ~obj'.deleting /\ ~Guarded(obj') /\ pc' = "guard"
    BY <1>1 DEF FetchCluster, Terminating
  <1>3. UidsKnown' /\ CacheKnows'
    BY <1>1 DEF Refining, UidsKnown, CacheKnows, Guarded
  <1>4. Follows(crCache[req], cr[req])
    BY <1>1 DEF Refining, Inductive, VersionsFollow
  <1>5. PassKnows'
    BY <1>1, <1>2, <1>4 DEF PassKnows, Follows, Guarded
  <1> QED
    BY <1>3, <1>5 DEF Knowing

\* What AddFinalizer finds: its copy, the cached one and the object are the same.
LEMMA GuardFinds ==
    ASSUME Refining, AddFinalizer
    PROVE  /\ req \in Clusters /\ cr[req] # None /\ crCache[req] = cr[req]
           /\ ~cr[req].deleting /\ ~Guarded(cr[req])
  <1>1. /\ TypeOK /\ pc = "guard" /\ req \in Clusters /\ obj \in CustomResources
        /\ cr[req] # None /\ cr[req].rv = obj.rv
    BY PassType DEF Refining, Inductive, AddFinalizer, IsCurrent
  <1>2. obj = cr[req]
    BY <1>1, ApiAssumption DEF Refining, Inductive, VersionsFollow, Follows
  <1> QED
    BY <1>1, <1>2 DEF Refining, PassKnows

LEMMA GuardKnows ==
    ASSUME Refining, TypeOK', AddFinalizer
    PROVE  Knowing'
  <1> DEFINE copy == [obj EXCEPT !.fin = obj.fin \cup {Finalizer}]
  <1>1. /\ TypeOK /\ UNCHANGED crCache /\ obj \in CustomResources /\ Update(req, copy)
        /\ pc' \in {"lookup", "idle"}
    BY PassType DEF Refining, Inductive, AddFinalizer, Answered, Retry, Drop
  <1>2. copy \in CustomResources
    BY <1>1 DEF CustomResources
  <1> HIDE DEF copy
  <1>3. /\ req \in Clusters /\ cr[req] # None /\ crCache[req] = cr[req]
        /\ ~cr[req].deleting
    BY GuardFinds
  <1>4. /\ Evolves(req) /\ (cr'[req] # None => cr'[req].uid = cr[req].uid)
        /\ \A n \in Clusters \ {req} : cr'[n] = cr[n]
        /\ rev' = rev + 1
    BY <1>1, <1>2, <1>3, UpdateEvolves
  <1>5. \A n \in Clusters : Moved(n) /\ Evolves(n)
    BY <1>1, <1>2, <1>3, <1>4, UpdateMoves DEF Evolves
  <1>6. UidsKnown'
    <2>1. rev \in Nat /\ \A n \in Clusters : crCache[n] # None => crCache[n].uid \in Nat
      BY <1>1 DEF TypeOK, ApiTypeOK, CustomResources
    <2>2. \A n \in Clusters : crCache[n] # None => crCache[n].uid <= rev'
      BY <1>4, <2>1 DEF Refining, UidsKnown
    <2> QED
      BY <1>1, <1>5, <2>2, UidMoved DEF Refining, UidsKnown
  <1>7. CacheKnows'
    BY <1>1, <1>3, <1>4 DEF Refining, CacheKnows, Guarded
  <1>8. PassKnows'
    BY <1>1 DEF PassKnows
  <1> QED
    BY <1>6, <1>7, <1>8 DEF Knowing

LEMMA ReleaseKnows ==
    ASSUME Refining, TypeOK', RemoveFinalizer
    PROVE  Knowing'
  <1> DEFINE copy == [obj EXCEPT !.fin = obj.fin \ {Finalizer}]
  <1>1. /\ TypeOK /\ UNCHANGED crCache /\ pc' = "idle"
        /\ req \in Clusters /\ obj \in CustomResources /\ cr[req] # None
        /\ Update(req, copy)
    BY PassType DEF Refining, Inductive, RemoveFinalizer, IsCurrent, Answered, Finish, Retry, Drop
  <1>2. copy \in CustomResources /\ Finalizer \notin copy.fin
    BY <1>1 DEF CustomResources
  <1> HIDE DEF copy
  <1>4. /\ Evolves(req)
        /\ cr'[req] # None => cr'[req].uid = cr[req].uid /\ cr'[req].deleting = cr[req].deleting
        /\ \A n \in Clusters \ {req} : cr'[n] = cr[n]
        /\ rev' = rev + 1
    BY <1>1, <1>2, UpdateEvolves
  <1>5. (\A n \in Clusters : Moved(n) /\ Evolves(n)) /\ ~Guarded(cr'[req])
    BY <1>1, <1>2, <1>4, UpdateMoves DEF Evolves
  <1>6. UidsKnown'
    <2>1. rev \in Nat /\ \A n \in Clusters : crCache[n] # None => crCache[n].uid \in Nat
      BY <1>1 DEF TypeOK, ApiTypeOK, CustomResources
    <2>2. \A n \in Clusters : crCache[n] # None => crCache[n].uid <= rev'
      BY <1>4, <2>1 DEF Refining, UidsKnown
    <2> QED
      BY <1>1, <1>5, <2>2, UidMoved DEF Refining, UidsKnown
  <1>7. CacheKnows'
    BY <1>1, <1>4, <1>5 DEF Refining, CacheKnows, Guarded
  <1>8. PassKnows'
    BY <1>1 DEF PassKnows
  <1> QED
    BY <1>6, <1>7, <1>8 DEF Knowing

\* A call that goes on with the same copy.
LEMMA CallKnows ==
    ASSUME Refining, UNCHANGED <<cr, rev, crCache>>,
           \/ /\ UNCHANGED <<req, obj>>
              /\ \/ pc' \in {"lookup", "write", "announce"}
                 \/ pc \in {"teardown", "release"} /\ pc' \in {"teardown", "release"}
           \/ pc' = "idle"
    PROVE  Knowing'
  <1>1. UidsKnown' /\ CacheKnows'
    BY DEF Refining, UidsKnown, CacheKnows, Guarded
  <1>2. PassKnows'
    BY DEF Refining, PassKnows, Guarded
  <1> QED
    BY <1>1, <1>2 DEF Knowing

LEMMA RefiningInit == Init => Refining
  <1> SUFFICES ASSUME Init
               PROVE  Refining
    OBVIOUS
  <1>1. /\ \A n \in Clusters : cr[n] = None /\ crCache[n] = None
        /\ pc = "idle" /\ budget = Budget
    BY DEF Init, ApiInit
  <1>2. UidsKnown /\ CacheKnows /\ PassKnows
    BY <1>1 DEF UidsKnown, CacheKnows, PassKnows, Guarded
  <1>3. BudgetKept
    BY <1>1, ApiAssumption DEF BudgetKept
  <1> QED
    BY <1>2, <1>3, InductiveInit DEF Refining

LEMMA RefiningStep ==
    ASSUME NamesUnambiguous
    PROVE  Refining /\ [Next]_vars => Refining'
  <1> SUFFICES ASSUME Refining, [Next]_vars
               PROVE  Refining'
    OBVIOUS
  <1>0. Inductive' /\ TypeOK' /\ BudgetKept'
    BY InductiveStep, BudgetStep DEF Refining, Inductive
  <1> SUFFICES Knowing'
    BY <1>0 DEF Refining, Knowing
  <1> USE DEF apiVars, workerVars
  <1>1. CASE UserNext /\ UNCHANGED managerVars
    BY <1>0, <1>1, UserKnows
  <1>2. ASSUME NEW n \in Clusters, DeliverCluster(n)
        PROVE  Knowing'
    BY <1>2, DeliverKnows
  <1>3. ASSUME NEW n \in Clusters, Dequeue(n)
        PROVE  Knowing'
    BY <1>3, RestKnows DEF Dequeue
  <1>4. CASE UNCHANGED vars \/ \E kind \in Kinds : DeliverObjects(kind)
    <2>1. UNCHANGED <<cr, rev, crCache, pc, req, obj>>
      BY <1>4 DEF vars, managerVars, DeliverObjects
    <2> QED
      BY <2>1 DEF Refining, Knowing, UidsKnown, CacheKnows, PassKnows, Guarded
  <1>5. CASE FetchNothing \/ Announce
    BY <1>5, RestKnows DEF FetchNothing, Announce, Finish, Drop
  <1>6. CASE FetchCluster
    BY <1>6, FetchKnows
  <1>7. CASE AddFinalizer
    BY <1>0, <1>7, GuardKnows
  <1>8. CASE \/ AddFinalizerConflict \/ RenderFails \/ WriteRefused
             \/ RemoveFinalizerConflict \/ CallFails
    BY <1>8, RestKnows DEF AddFinalizerConflict, RenderFails, WriteRefused,
                           RemoveFinalizerConflict, CallFails, Retry, Drop
  <1>9. CASE SkipExisting
    BY <1>9, CallKnows DEF SkipExisting, Advance, GoTo
  <1>10. CASE LookUp
    BY <1>10, CallKnows DEF LookUp
  <1>11. CASE Write
    BY <1>11, CallKnows DEF Write, Answered, Advance, GoTo, Retry, Drop
  <1>12. CASE DeleteObject
    BY <1>12, CallKnows DEF DeleteObject, Answered, GoTo, Retry, Drop
  <1>13. CASE RemoveFinalizer
    BY <1>0, <1>13, ReleaseKnows
  <1>14. CASE Restart
    BY <1>14, RestKnows DEF Restart
  <1> QED
    BY <1>1, <1>2, <1>3, <1>4, <1>5, <1>6, <1>7, <1>8, <1>9, <1>10, <1>11, <1>12, <1>13,
       <1>14 DEF Next, ManagerNext, Running, Reconcile

-----------------------------------------------------------------------------
\* What the steps mean to Lifecycle.

\* A pass for n may still build.
Building(n) == req = n /\ pc \in {"lookup", "write"}

\* What the phase depends on.
LEMMA PhaseKept ==
    ASSUME NEW n \in Clusters, cr'[n] = cr[n], crCache'[n] = crCache[n],
           Building(n)' <=> Building(n)
    PROVE  Phase(n)' = Phase(n)
  <1>1. /\ Live(n)' <=> Live(n) /\ (Guarded(cr[n])' <=> Guarded(cr[n]))
        /\ Terminating(cr[n])' <=> Terminating(cr[n])
        /\ Settled(n)' <=> Settled(n)
    BY DEF Live, Guarded, Terminating, Settled, Building
  <1> QED
    BY <1>1 DEF Phase

\* A step that changes no object can only let the operator notice a deletion.
LEMMA Noticed ==
    ASSUME NEW n \in Clusters, cr'[n] = cr[n], crCache'[n] \in {crCache[n], cr[n]},
           Building(n)' => Building(n)
    PROVE  Phase(n)' = Phase(n) \/ (Phase(n) = "closing" /\ Phase(n)' = "tearing")
  <1>1. /\ Live(n)' <=> Live(n) /\ (Guarded(cr[n])' <=> Guarded(cr[n]))
        /\ Terminating(cr[n])' <=> Terminating(cr[n])
        /\ Terminating(cr[n]) /\ Settled(n) => Settled(n)'
    BY DEF Live, Guarded, Terminating, Settled, Building
  <1> QED
    BY <1>1 DEF Phase

LEMMA Noticing ==
    ASSUME UNCHANGED store, \A n \in Clusters :
              /\ cr'[n] = cr[n] /\ crCache'[n] \in {crCache[n], cr[n]}
              /\ Building(n)' => Building(n)
    PROVE  Environment!Next
  <1>1. \A n \in Clusters : Left(n)' = Left(n)
    BY DEF Left
  <1> QED
    BY <1>1, Noticed, SomeSettle

\* The phases, as far as the mapping reads them off the object alone.
LEMMA PhaseOf ==
    ASSUME NEW n \in Clusters
    PROVE  /\ cr[n] = None => Phase(n) = "absent"
           /\ cr[n] # None /\ ~cr[n].deleting /\ ~Guarded(cr[n]) => Phase(n) = "open"
           /\ cr[n] # None /\ ~cr[n].deleting /\ Guarded(cr[n]) => Phase(n) = "guarded"
           /\ cr[n] # None /\ cr[n].deleting /\ Guarded(cr[n]) =>
                 Phase(n) = IF Settled(n) THEN "tearing" ELSE "closing"
           /\ cr[n] # None /\ cr[n].deleting /\ ~Guarded(cr[n]) => Phase(n) = "leaving"
  BY DEF Phase, Live, Terminating, Guarded

\* The same after a step.
LEMMA PhaseOfNext ==
    ASSUME NEW n \in Clusters
    PROVE  /\ cr'[n] = None => Phase(n)' = "absent"
           /\ cr'[n] # None /\ ~cr'[n].deleting /\ ~Guarded(cr'[n]) => Phase(n)' = "open"
           /\ cr'[n] # None /\ ~cr'[n].deleting /\ Guarded(cr'[n]) => Phase(n)' = "guarded"
           /\ cr'[n] # None /\ cr'[n].deleting /\ Guarded(cr'[n]) =>
                 Phase(n)' = IF Settled(n)' THEN "tearing" ELSE "closing"
           /\ cr'[n] # None /\ cr'[n].deleting /\ ~Guarded(cr'[n]) => Phase(n)' = "leaving"
  BY DEF Phase, Live, Terminating, Guarded

\* Users and other controllers.
LEMMA UserLeads ==
    ASSUME NamesUnambiguous, Refining, UserNext, UNCHANGED managerVars
    PROVE  [Environment!Next]_(Environment!vars)
  <1>1. /\ TypeOK /\ UNCHANGED <<crCache, pc, req>>
        /\ \A n \in Clusters : Guarded(cr'[n]) <=> Guarded(cr[n])
    BY UserMoves DEF Refining, Inductive, managerVars, workerVars
  <1>2. ASSUME UNCHANGED store, NEW m \in Clusters, Evolves(m),
               \A n \in Clusters \ {m} : cr'[n] = cr[n]
        PROVE  [Environment!Next]_(Environment!vars)
    <2>1. \A n \in Clusters : Left(n)' = Left(n)
      BY <1>2 DEF Left
    <2>2. \A n \in Clusters \ {m} : Rests(n)
      BY <1>1, <1>2, <2>1, PhaseKept DEF Rests, Building
    <2>3. Led(m)
      <3>1. CASE cr'[m] = cr[m]
        BY <1>1, <2>1, <3>1, PhaseKept DEF Led, Rests, Building
      <3>2. CASE cr[m] # None /\ cr'[m] = None
        <4>1. ~Guarded(cr[m])
          BY <1>1, <3>2 DEF Guarded
        <4>2. Phase(m) \in {"open", "leaving"} /\ Phase(m)' = "absent"
          BY <3>2, <4>1, PhaseOf, PhaseOfNext
        <4> QED
          BY <2>1, <4>2 DEF Led, Becomes
      <3>3. CASE cr[m] = None /\ cr'[m] # None /\ ~cr'[m].deleting
        <4>1. ~Guarded(cr[m])
          BY <3>3 DEF Guarded
        <4>2. Phase(m) = "absent" /\ Phase(m)' = "open"
          BY <1>1, <3>3, <4>1, PhaseOf, PhaseOfNext
        <4> QED
          BY <2>1, <4>2 DEF Led, Becomes
      <3>4. CASE /\ cr[m] # None /\ cr'[m] # None /\ cr'[m].uid = cr[m].uid
                 /\ cr[m].deleting => cr'[m].deleting
        <4>1. Settled(m)' <=> Settled(m)
          BY <1>1, <3>4 DEF Settled
        <4>2. Settled(m) => cr[m].deleting
          BY <3>4 DEF Settled, Refining, CacheKnows
        <4>3. CASE cr'[m].deleting <=> cr[m].deleting
          <5>1. Phase(m)' = Phase(m)
            BY <1>1, <3>4, <4>1, <4>3, PhaseOf, PhaseOfNext
          <5> QED
            BY <2>1, <5>1 DEF Led, Rests
        <4>4. CASE ~cr[m].deleting /\ cr'[m].deleting
          <5>1. \/ Phase(m) = "open" /\ Phase(m)' = "leaving"
                \/ Phase(m) = "guarded" /\ Phase(m)' = "closing"
            BY <1>1, <3>4, <4>1, <4>2, <4>4, PhaseOf, PhaseOfNext
          <5> QED
            BY <2>1, <5>1 DEF Led, Becomes
        <4> QED
          BY <3>4, <4>3, <4>4
      <3> QED
        BY <1>2, <3>1, <3>2, <3>3, <3>4 DEF Evolves
    <2> QED
      BY <2>2, <2>3, OneLed
  <1>3. ASSUME UNCHANGED cr, NEW k \in Keys, ObjectLost(k)
        PROVE  [Environment!Next]_(Environment!vars)
    <2>1. \A n \in Clusters : Phase(n)' = Phase(n)
      BY <1>1, <1>3, PhaseKept DEF Building
    <2>2. \A j \in Keys : store'[j] = IF j = k THEN None ELSE store[j]
      BY <1>1, <1>3 DEF ObjectLost, TypeOK, ApiTypeOK
    <2>3. ASSUME NEW n \in Clusters
          PROVE  /\ Left(n)' = Left(n) \ {k}
                 /\ k \notin Kids(n) => Left(n)' = Left(n)
      <3>1. Kids(n) \subseteq Keys
        BY DEF Keys
      <3> QED
        BY <2>2, <3>1 DEF Left
    <2>4. Budget["lose"] > 0
      <3>1. budget["lose"] > 0 /\ budget["lose"] <= Budget["lose"]
        BY <1>3 DEF ObjectLost, Spend, Refining, BudgetKept, Disturbances
      <3>2. budget["lose"] \in Nat /\ Budget["lose"] \in Nat
        BY <1>1, ApiAssumption DEF TypeOK, ApiTypeOK, Disturbances
      <3> QED
        BY <3>1, <3>2
    <2>5. CASE \E n \in Clusters : k \in Kids(n)
      <3>1. PICK n \in Clusters : k \in Kids(n)
        BY <2>5
      <3>2. \A m \in Clusters \ {n} : Rests(m)
        BY <2>1, <2>3, <3>1, Apart DEF Rests
      <3>3. Led(n)
        BY <2>1, <2>3, <2>4 DEF Led
      <3> QED
        BY <3>2, <3>3, OneLed
    <2>6. CASE \A n \in Clusters : k \notin Kids(n)
      BY <2>1, <2>3, <2>6, SomeSettle
    <2> QED
      BY <2>5, <2>6
  <1> QED
    BY <1>1, <1>2, <1>3, UserEvolves

\* A pass finds the object in the cache.
LEMMA FetchLeads ==
    ASSUME Refining, FetchCluster
    PROVE  Environment!Next
  <1>1. /\ UNCHANGED <<cr, store, crCache, req>> /\ pc = "fetch"
        /\ req \in Clusters /\ obj' = crCache[req]
    BY DEF Refining, Inductive, FetchCluster, apiVars, TypeOK, WorkerTypeOK
  <1>2. ~crCache[req].deleting \/ pc' \in {"teardown", "guard"}
    BY <1>1 DEF FetchCluster, Terminating
  <1>3. ASSUME NEW n \in Clusters
        PROVE  Phase(n)' = Phase(n)
    <2>1. CASE Building(n)' <=> Building(n)
      BY <1>1, <2>1, PhaseKept
    <2>2. CASE n = req /\ ~crCache[n].deleting
      <3>1. ~Settled(n) /\ ~Settled(n)'
        BY <1>1, <2>2 DEF Settled
      <3> QED
        BY <1>1, <3>1, PhaseOf, PhaseOfNext
    <2> QED
      BY <1>1, <1>2, <2>1, <2>2 DEF Building
  <1>4. \A n \in Clusters : Left(n)' = Left(n)
    BY <1>1 DEF Left
  <1> QED
    BY <1>3, <1>4, SomeSettle

\* A pass puts the finalizer on the object.
LEMMA GuardLeads ==
    ASSUME Refining, AddFinalizer
    PROVE  [Environment!Next]_(Environment!vars)
  <1> DEFINE copy == [obj EXCEPT !.fin = obj.fin \cup {Finalizer}]
  <1>1. /\ TypeOK /\ UNCHANGED <<crCache, store>> /\ obj \in CustomResources /\ Update(req, copy)
        /\ pc = "guard" /\ (UNCHANGED req \/ pc' = "idle")
    BY PassType DEF Refining, Inductive, AddFinalizer, Answered, Retry, Drop
  <1>2. copy \in CustomResources /\ Finalizer \in copy.fin
    BY <1>1 DEF CustomResources
  <1> HIDE DEF copy
  <1>3. /\ req \in Clusters /\ cr[req] # None
        /\ ~cr[req].deleting /\ ~Guarded(cr[req])
    BY GuardFinds
  <1>4. /\ cr'[req] # None /\ ~cr'[req].deleting
        /\ \A n \in Clusters \ {req} : cr'[n] = cr[n]
    BY <1>1, <1>2, <1>3, UpdateEvolves
  <1>5. Guarded(cr'[req])
    BY <1>1, <1>2, <1>3, UpdateMoves
  <1>6. \A n \in Clusters : Left(n)' = Left(n)
    BY <1>1 DEF Left
  <1>7. PICK m \in Clusters : m = req
    BY <1>3
  <1>8. Led(m)
    <2>1. Phase(m) = "open" /\ Phase(m)' = "guarded"
      BY <1>3, <1>4, <1>5, <1>7, PhaseOf, PhaseOfNext
    <2> QED
      BY <1>6, <2>1 DEF Led, Becomes
  <1>9. \A n \in Clusters \ {m} : Rests(n)
    BY <1>1, <1>4, <1>6, <1>7, PhaseKept DEF Rests, Building
  <1> QED
    BY <1>8, <1>9, OneLed

\* The write of a stage.
LEMMA WriteLeads ==
    ASSUME NamesUnambiguous, Refining, Write
    PROVE  [Environment!Next]_(Environment!vars)
  <1> DEFINE made == ThisStage.target
  <1>1. /\ TypeOK /\ req \in Clusters /\ step \in StageIds /\ pc = "write"
        /\ UNCHANGED <<cr, crCache>> /\ (UNCHANGED req \/ pc' = "idle")
        /\ Guarded(cr[req])
    BY PassType DEF Refining, Inductive, PassGuarded, Write, Answered, Advance, GoTo, Retry, Drop,
                    TypeOK, WorkerTypeOK
  <1>2. made \in Kids(req) \cup MetricsKids(req) /\ made \in Keys
    BY <1>1, StageObjects DEF ThisStage, Keys
  <1>3. store'[made] # None /\ \A k \in Keys \ {made} : store'[k] = store[k]
    <2> DEFINE object == [uid |-> obj.uid, gen |-> obj.gen, body |-> ThisBody]
    <2>1. store' = [store EXCEPT ![made] = object]
      BY DEF Write
    <2>2. object \in Objects
      BY <1>1, BodyType, PassType DEF Objects, CustomResources
    <2> HIDE DEF object, made
    <2> QED
      BY <1>1, <1>2, <2>1, <2>2, ObjectsAssumption DEF TypeOK, ApiTypeOK
  <1> HIDE DEF made
  <1>4. ASSUME NEW n \in Clusters
        PROVE  Left(n)' = IF made \in Kids(n) THEN Left(n) \cup {made} ELSE Left(n)
    <2>1. Kids(n) \subseteq Keys
      BY DEF Keys
    <2> QED
      BY <1>2, <1>3, <2>1 DEF Left
  <1>5. ASSUME NEW n \in Clusters
        PROVE  Phase(n)' = Phase(n) \/ (Phase(n) = "closing" /\ Phase(n)' = "tearing")
    BY <1>1, Noticed DEF Building
  <1>6. ASSUME NEW n \in Clusters \ {req}
        PROVE  Rests(n)
    <2>1. made \notin Kids(n)
      BY <1>1, <1>2, Apart
    <2> QED
      BY <1>1, <1>4, <2>1, PhaseKept DEF Rests, Building
  <1>7. CASE made \in Kids(req)
    <2>1. PICK m \in Clusters : m = req
      BY <1>1
    <2>2. Phase(m) \in {"guarded", "closing"}
      <3>1. ~Settled(m) /\ cr[m] # None
        BY <1>1, <2>1 DEF Settled, Guarded
      <3> QED
        BY <1>1, <2>1, <3>1, PhaseOf
    <2>3. Led(m)
      BY <1>2, <1>4, <1>5, <1>7, <2>1, <2>2 DEF Led
    <2> QED
      BY <1>6, <2>1, <2>3, OneLed
  <1>8. CASE made \notin Kids(req)
    <2>1. \A n \in Clusters : Left(n)' = Left(n)
      BY <1>4, <1>6, <1>8 DEF Rests
    <2> QED
      BY <1>5, <2>1, SomeSettle
  <1> QED
    BY <1>7, <1>8

\* While a pass tears a guarded environment down, its deletion is settled.
LEMMA TearingSettled ==
    ASSUME Refining, pc \in {"teardown", "release"}, Guarded(cr[req])
    PROVE  Phase(req) = "tearing"
  <1>1. req \in Clusters /\ cr[req] # None
    BY PassType DEF Refining, Inductive, Guarded
  <1>2. crCache[req] # None /\ crCache[req].uid = cr[req].uid /\ crCache[req].deleting
    BY <1>1 DEF Refining, CacheKnows, PassKnows
  <1>3. cr[req].deleting
    BY <1>1, <1>2 DEF Refining, CacheKnows
  <1>4. Settled(req)
    BY <1>2 DEF Settled
  <1> QED
    BY <1>1, <1>3, <1>4, PhaseOf

\* A deletion of the teardown.
LEMMA DeleteLeads ==
    ASSUME NamesUnambiguous, Refining, DeleteObject
    PROVE  [Environment!Next]_(Environment!vars)
  <1> DEFINE gone == Doomed(req, step)
  <1>1. /\ TypeOK /\ req \in Clusters /\ step \in StageIds /\ pc = "teardown"
        /\ UNCHANGED <<cr, crCache>> /\ pc' \in {"teardown", "release", "idle"}
        /\ store' = [store EXCEPT ![gone] = None]
    BY PassType DEF Refining, Inductive, DeleteObject, Answered, GoTo, Retry, Drop,
                    TypeOK, WorkerTypeOK
  <1>2. gone \in Touched(req) /\ gone \in Keys
    BY <1>1, DoomedObjects DEF Touched, Keys
  <1> HIDE DEF gone
  <1>3. \A k \in Keys : store'[k] = IF k = gone THEN None ELSE store[k]
    BY <1>1 DEF TypeOK, ApiTypeOK
  <1>4. ASSUME NEW n \in Clusters
        PROVE  /\ Left(n)' = Left(n) \ {gone}
               /\ gone \notin Kids(n) => Left(n)' = Left(n)
    <2>1. Kids(n) \subseteq Keys
      BY DEF Keys
    <2> QED
      BY <1>3, <2>1 DEF Left
  <1>5. \A n \in Clusters : Phase(n)' = Phase(n)
    BY <1>1, PhaseKept DEF Building
  <1>6. \A n \in Clusters \ {req} : Rests(n)
    <2>1. \A n \in Clusters \ {req} : gone \notin Kids(n)
      BY <1>1, <1>2, TouchedApart
    <2> QED
      BY <1>4, <1>5, <2>1 DEF Rests
  <1>7. PICK m \in Clusters : m = req
    BY <1>1
  <1>8. CASE Guarded(cr[req])
    <2>1. Phase(m) = "tearing"
      BY <1>1, <1>7, <1>8, TearingSettled
    <2>2. Led(m)
      BY <1>2, <1>4, <1>5, <2>1 DEF Led
    <2> QED
      BY <1>6, <1>7, <2>2, OneLed
  <1>9. CASE ~Guarded(cr[req])
    <2>1. Left(m) = {}
      BY <1>7, <1>9 DEF Refining, Inductive, NoOrphans, Left
    <2>2. Rests(m)
      BY <1>4, <1>5, <2>1 DEF Rests
    <2> QED
      BY <1>6, <1>7, <2>2, OneLed DEF Led
  <1> QED
    BY <1>8, <1>9

\* The release.
LEMMA ReleaseLeads ==
    ASSUME Refining, RemoveFinalizer
    PROVE  [Environment!Next]_(Environment!vars)
  <1> DEFINE copy == [obj EXCEPT !.fin = obj.fin \ {Finalizer}]
  <1>1. /\ TypeOK /\ UNCHANGED <<crCache, store>> /\ pc = "release" /\ pc' = "idle"
        /\ req \in Clusters /\ obj \in CustomResources /\ cr[req] # None
        /\ cr[req].rv = obj.rv /\ Update(req, copy)
    BY PassType DEF Refining, Inductive, RemoveFinalizer, IsCurrent, Answered, Finish, Retry, Drop
  <1>2. copy \in CustomResources /\ Finalizer \notin copy.fin
    BY <1>1 DEF CustomResources
  <1> HIDE DEF copy
  <1>3. cr[req].deleting
    BY <1>1, ApiAssumption DEF Refining, Inductive, VersionsFollow, PassGuarded, Follows
  <1>4. /\ cr'[req] # None => cr'[req].deleting
        /\ \A n \in Clusters \ {req} : cr'[n] = cr[n]
    BY <1>1, <1>2, <1>3, UpdateEvolves
  <1>5. ~Guarded(cr'[req])
    BY <1>1, <1>2, UpdateMoves
  <1>6. \A n \in Clusters : Left(n)' = Left(n)
    BY <1>1 DEF Left
  <1>7. PICK m \in Clusters : m = req
    BY <1>1
  <1>8. Phase(m)' \in {"absent", "leaving"}
    BY <1>4, <1>5, <1>7, PhaseOfNext
  <1>9. Led(m)
    <2>1. CASE Guarded(cr[req])
      <3>1. Phase(m) = "tearing"
        BY <1>1, <1>7, <2>1, TearingSettled
      <3>2. \A k \in Kids(req) : store[k] = None
        BY <1>1, KidsDoomed DEF Refining, Inductive, TornDown
      <3>3. Left(m) = {}
        BY <1>7, <3>2 DEF Left
      <3> QED
        BY <1>6, <1>8, <3>1, <3>3 DEF Led, Becomes
    <2>2. CASE ~Guarded(cr[req])
      <3>1. Phase(m) = "leaving"
        BY <1>1, <1>3, <1>7, <2>2, PhaseOf
      <3> QED
        BY <1>6, <1>8, <3>1 DEF Led, Becomes, Rests
    <2> QED
      BY <2>1, <2>2
  <1>10. \A n \in Clusters \ {m} : Rests(n)
    BY <1>1, <1>4, <1>6, <1>7, PhaseKept DEF Rests, Building
  <1> QED
    BY <1>9, <1>10, OneLed

-----------------------------------------------------------------------------
LEMMA LifecycleInit == Init => Environment!Init
  <1> SUFFICES ASSUME Init
               PROVE  Environment!Init
    OBVIOUS
  <1>1. /\ \A n \in Clusters : cr[n] = None
        /\ \A k \in Keys : store[k] = None
    BY DEF Init, ApiInit
  <1>2. \A n \in Clusters : Phase(n) = "absent"
    BY <1>1, PhaseOf
  <1>3. \A n \in Clusters : {k \in Kids(n) : store[k] # None} = {}
    <2>1. \A n \in Clusters : Kids(n) \subseteq Keys
      BY DEF Keys
    <2> QED
      BY <1>1, <2>1
  <1> QED
    BY <1>2, <1>3 DEF Environment!Init

LEMMA LifecycleStep ==
    ASSUME NamesUnambiguous
    PROVE  Refining /\ [Next]_vars => [Environment!Next]_(Environment!vars)
  <1> SUFFICES ASSUME Refining, [Next]_vars
               PROVE  [Environment!Next]_(Environment!vars)
    OBVIOUS
  <1> USE DEF apiVars, workerVars, Building
  <1>1. CASE UserNext /\ UNCHANGED managerVars
    BY <1>1, UserLeads
  <1>2. ASSUME NEW n \in Clusters, DeliverCluster(n)
        PROVE  Environment!Next
    BY <1>2, Noticing DEF DeliverCluster, Refining, Inductive, TypeOK
  <1>3. ASSUME NEW n \in Clusters, Dequeue(n)
        PROVE  Environment!Next
    BY <1>3, Noticing DEF Dequeue
  <1>4. CASE UNCHANGED vars \/ \E kind \in Kinds : DeliverObjects(kind)
    BY <1>4, Noticing DEF vars, managerVars, DeliverObjects
  <1>5. CASE FetchNothing \/ Announce
    BY <1>5, Noticing DEF FetchNothing, Announce, Finish, Drop
  <1>6. CASE FetchCluster
    BY <1>6, FetchLeads
  <1>7. CASE AddFinalizer
    BY <1>7, GuardLeads
  <1>8. CASE \/ AddFinalizerConflict \/ RenderFails \/ WriteRefused
             \/ RemoveFinalizerConflict \/ CallFails
    BY <1>8, Noticing DEF AddFinalizerConflict, RenderFails, WriteRefused,
                          RemoveFinalizerConflict, CallFails, Retry, Drop
  <1>9. CASE SkipExisting
    BY <1>9, Noticing DEF SkipExisting, Advance, GoTo
  <1>10. CASE LookUp
    BY <1>10, Noticing DEF LookUp
  <1>11. CASE Write
    BY <1>11, WriteLeads
  <1>12. CASE DeleteObject
    BY <1>12, DeleteLeads
  <1>13. CASE RemoveFinalizer
    BY <1>13, ReleaseLeads
  <1>14. CASE Restart
    BY <1>14, Noticing DEF Restart
  <1> QED
    BY <1>1, <1>2, <1>3, <1>4, <1>5, <1>6, <1>7, <1>8, <1>9, <1>10, <1>11, <1>12, <1>13,
       <1>14 DEF Next, ManagerNext, Running, Reconcile

\* What the refinement rests on holds throughout: a pass never tears a guarded
\* environment down unless the cache knows of its deletion, and never sets the
\* finalizer on an object other than the one the cache shows.
THEOREM RefiningAlways ==
    ASSUME NamesUnambiguous
    PROVE  Spec => []Refining
  BY RefiningInit, RefiningStep, PTL DEF Spec

\* The operator leads every environment through the life that Lifecycle describes,
\* for any clusters with unambiguous names, any specs, finalizers and disturbances:
\* guarded before it is built, never rebuilt once its teardown has begun, released
\* when nothing of it is left (Reconcile, lines 66-480).
THEOREM LifecycleImplemented ==
    ASSUME NamesUnambiguous
    PROVE  Spec => ImplementsLifecycle
  BY RefiningInit, RefiningStep, LifecycleInit, LifecycleStep, PTL
     DEF Spec, ImplementsLifecycle, Environment!Spec
=============================================================================
