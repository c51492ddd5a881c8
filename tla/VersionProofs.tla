---------------------------- MODULE VersionProofs ----------------------------
(***************************************************************************)
(* Proof that the two Updates of a pass undo no edit.  What they rest on   *)
(* is the resource version: no copy is newer than the object, and one that *)
(* is as new is the object.  The lemmas speak of one manager and of what   *)
(* others do to the objects, whoever they are.                             *)
(***************************************************************************)
EXTENDS OperatorProofs

-----------------------------------------------------------------------------
\* How the objects on the API server move.

\* An object stays, goes, or gets a resource version nobody has seen.
Moved(n) ==
    /\ rev <= rev'
    /\ \/ cr'[n] = cr[n]
       \/ cr'[n] = None
       \/ cr'[n].rv = rev + 1 /\ rev' = rev + 1

LEMMA UpdateMoves ==
    ASSUME TypeOK, NEW m \in Clusters, NEW copy \in CustomResources, cr[m] # None,
           Update(m, copy), NEW n \in Clusters
    PROVE  /\ Moved(n)
           /\ n # m => cr'[n] = cr[n]
           /\ Guarded(cr'[m]) <=> Finalizer \in copy.fin
  <1>1. cr[m] \in CustomResources /\ rev \in Nat
    BY DEF TypeOK, ApiTypeOK
  <1>2. Updated(cr[m], copy) \in CustomResources
    BY <1>1, UpdatedType
  <1>3. Updated(cr[m], copy).rv = rev + 1 /\ Updated(cr[m], copy).fin = copy.fin
    BY <1>1 DEF Updated, CustomResources
  <1>4. cr' = [cr EXCEPT ![m] = Stored(Updated(cr[m], copy))] /\ rev' = rev + 1
    BY DEF Update
  <1>5. cr'[m] = Stored(Updated(cr[m], copy))
    BY <1>4 DEF TypeOK, ApiTypeOK
  <1>6. n # m => cr'[n] = cr[n]
    BY <1>4 DEF TypeOK, ApiTypeOK
  <1>7. Moved(n)
    BY <1>1, <1>3, <1>4, <1>5, <1>6 DEF Moved, Stored
  <1>8. Guarded(cr'[m]) <=> Finalizer \in copy.fin
    BY <1>2, <1>3, <1>5, ApiAssumption DEF Guarded, Stored
  <1> QED
    BY <1>6, <1>7, <1>8

\* Users and other controllers neither put our finalizer on an object nor take it
\* off, and they create none of the generated objects.
LEMMA UserMoves ==
    ASSUME TypeOK, UserNext
    PROVE  /\ \A n \in Clusters : Moved(n) /\ (Guarded(cr'[n]) <=> Guarded(cr[n]))
           /\ \A k \in Keys : store'[k] \in {store[k], None}
  <1> DEFINE Goal == /\ \A n \in Clusters : Moved(n) /\ (Guarded(cr'[n]) <=> Guarded(cr[n]))
                     /\ \A k \in Keys : store'[k] \in {store[k], None}
  <1>0. rev \in Nat /\ cr \in [Clusters -> CustomResources \cup {None}]
    BY DEF TypeOK, ApiTypeOK
  <1>1. ASSUME NEW m \in Clusters, NEW spec \in Specs, NEW foreign \in SUBSET ForeignFinalizers,
               UserCreates(m, spec, foreign)
        PROVE  Goal
    <2> DEFINE new == [ uid |-> rev + 1, rv |-> rev + 1, gen |-> 1, deleting |-> FALSE,
                        fin |-> foreign, spec |-> spec ]
    <2>1. cr[m] = None /\ cr' = [cr EXCEPT ![m] = new] /\ rev' = rev + 1 /\ store' = store
      BY <1>1 DEF UserCreates
    <2>2. ~Guarded(cr[m]) /\ ~Guarded(new)
      BY <2>1, ApiAssumption DEF Guarded
    <2>3. new.rv = rev + 1
      OBVIOUS
    <2> HIDE DEF new
    <2> QED
      BY <1>0, <2>1, <2>2, <2>3 DEF Moved
  <1>2. ASSUME NEW m \in Clusters, NEW spec \in Specs, UserEdits(m, spec)
        PROVE  Goal
    <2> DEFINE new == Updated(cr[m], [cr[m] EXCEPT !.spec = spec])
    <2>1. cr[m] # None /\ cr' = [cr EXCEPT ![m] = new] /\ rev' = rev + 1 /\ store' = store
      BY <1>2 DEF UserEdits
    <2>2. cr[m] \in CustomResources /\ [cr[m] EXCEPT !.spec = spec] \in CustomResources
      BY <1>0, <2>1 DEF CustomResources
    <2>3. new \in CustomResources
      BY <1>0, <2>2, UpdatedType
    <2>4. new.rv = rev + 1 /\ new.fin = cr[m].fin
      BY <2>2 DEF Updated, CustomResources
    <2> HIDE DEF new
    <2>5. Guarded(new) <=> Guarded(cr[m])
      BY <2>1, <2>3, <2>4, ApiAssumption DEF Guarded
    <2> QED
      BY <1>0, <2>1, <2>4, <2>5 DEF Moved
  <1>3. ASSUME NEW m \in Clusters, UserDeletes(m)
        PROVE  Goal
    <2> DEFINE new == Marked(cr[m])
    <2>1. cr[m] # None /\ cr' = [cr EXCEPT ![m] = Stored(new)] /\ rev' = rev + 1 /\ store' = store
      BY <1>3 DEF UserDeletes
    <2>2. new \in CustomResources
      BY <1>0, <2>1, MarkedType
    <2>3. new.rv = rev + 1 /\ new.fin = cr[m].fin
      BY <1>0, <2>1 DEF Marked, CustomResources
    <2> HIDE DEF new
    <2>4. Guarded(Stored(new)) <=> Guarded(cr[m])
      BY <2>1, <2>2, <2>3, ApiAssumption DEF Guarded, Stored
    <2>5. Stored(new) = None \/ Stored(new).rv = rev + 1
      BY <2>3 DEF Stored
    <2> QED
      BY <1>0, <2>1, <2>4, <2>5 DEF Moved
  <1>4. ASSUME NEW m \in Clusters, ForeignRelease(m)
        PROVE  Goal
    <2>1. cr[m] # None /\ cr[m] \in CustomResources /\ store' = store
      BY <1>0, <1>4 DEF ForeignRelease, Terminating
    <2>2. PICK f \in cr[m].fin \cap ForeignFinalizers :
              Update(m, [cr[m] EXCEPT !.fin = cr[m].fin \ {f}])
      BY <1>4 DEF ForeignRelease
    <2> DEFINE copy == [cr[m] EXCEPT !.fin = cr[m].fin \ {f}]
    <2>3. copy \in CustomResources /\ copy.fin = cr[m].fin \ {f}
      BY <2>1 DEF CustomResources
    <2>4. Finalizer \in copy.fin <=> Guarded(cr[m])
      BY <2>1, <2>2, <2>3, ApiAssumption DEF Guarded
    <2> QED
      BY <2>1, <2>2, <2>3, <2>4, UpdateMoves
  <1>5. ASSUME NEW k \in Keys, ObjectLost(k)
        PROVE  Goal
    BY <1>0, <1>5 DEF ObjectLost, Moved, TypeOK, ApiTypeOK
  <1> QED
    BY <1>1, <1>2, <1>3, <1>4, <1>5 DEF UserNext

\* A copy that follows an object goes on following it.
LEMMA FollowsMoved ==
    ASSUME TypeOK, TypeOK', NEW n \in Clusters, Moved(n),
           NEW copy \in CustomResources, copy.rv <= rev, Follows(copy, cr[n])
    PROVE  copy.rv <= rev' /\ Follows(copy, cr'[n])
  <1>1. copy.rv \in Nat /\ rev \in Nat /\ rev' \in Nat
    BY DEF CustomResources, TypeOK, ApiTypeOK
  <1>2. copy.rv <= rev'
    BY <1>1 DEF Moved
  <1>3. CASE cr'[n] = cr[n]
    BY <1>2, <1>3
  <1>4. CASE cr'[n] = None
    BY <1>2, <1>4 DEF Follows
  <1>5. CASE cr'[n].rv = rev + 1
    <2>1. copy.rv <= cr'[n].rv /\ copy.rv # cr'[n].rv
      BY <1>1, <1>5
    <2> QED
      BY <1>2, <2>1 DEF Follows
  <1> QED
    BY <1>3, <1>4, <1>5 DEF Moved

\* The objects themselves.
LEMMA CurrentMoved ==
    ASSUME TypeOK, TypeOK', NEW n \in Clusters, Moved(n), cr[n] # None => cr[n].rv <= rev
    PROVE  cr'[n] # None => cr'[n].rv <= rev'
  <1>1. rev \in Nat /\ rev' \in Nat
    BY DEF TypeOK, ApiTypeOK
  <1>2. cr[n] # None => cr[n].rv \in Nat
    BY DEF CustomResources, TypeOK, ApiTypeOK
  <1> QED
    BY <1>1, <1>2 DEF Moved

-----------------------------------------------------------------------------
\* Versions.

Versioned == TypeOK /\ VersionsFollow

\* The objects and the cached copies, whoever changes the objects.
LEMMA CachedVersions ==
    ASSUME Versioned, TypeOK', UNCHANGED crCache, \A n \in Clusters : Moved(n)
    PROVE  \A n \in Clusters :
              /\ cr'[n] # None => cr'[n].rv <= rev'
              /\ crCache[n] # None => crCache[n].rv <= rev'
              /\ Follows(crCache[n], cr'[n])
  <1> SUFFICES ASSUME NEW n \in Clusters
               PROVE  /\ cr'[n] # None => cr'[n].rv <= rev'
                      /\ crCache[n] # None => crCache[n].rv <= rev'
                      /\ Follows(crCache[n], cr'[n])
    OBVIOUS
  <1>1. cr'[n] # None => cr'[n].rv <= rev'
    BY CurrentMoved DEF Versioned, VersionsFollow
  <1>2. CASE crCache[n] = None
    BY <1>1, <1>2 DEF Follows
  <1>3. CASE crCache[n] # None
    <2>1. crCache[n] \in CustomResources
      BY <1>3 DEF Versioned, TypeOK
    <2> QED
      BY <1>1, <1>3, <2>1, FollowsMoved DEF Versioned, VersionsFollow
  <1> QED
    BY <1>2, <1>3

\* Others than the manager change objects.
LEMMA OthersVersions ==
    ASSUME Versioned, TypeOK', UNCHANGED managerVars, \A n \in Clusters : Moved(n)
    PROVE  VersionsFollow'
  <1>1. TypeOK /\ UNCHANGED <<crCache, pc, req, obj>>
    BY DEF Versioned, managerVars, workerVars
  <1>2. ASSUME pc \notin {"idle", "fetch"}
        PROVE  obj.rv <= rev' /\ Follows(obj, cr'[req])
    BY <1>1, <1>2, PassType, FollowsMoved DEF Versioned, VersionsFollow
  <1> QED
    BY <1>1, <1>2, CachedVersions DEF VersionsFollow, Follows

\* The two Updates.
LEMMA GuardVersions ==
    ASSUME Versioned, TypeOK', AddFinalizer
    PROVE  VersionsFollow' /\ \A n \in Clusters : Moved(n)
  <1> DEFINE copy == [obj EXCEPT !.fin = obj.fin \cup {Finalizer}]
  <1>1. /\ TypeOK /\ UNCHANGED crCache
        /\ req \in Clusters /\ obj \in CustomResources /\ cr[req] # None
        /\ Update(req, copy)
    BY PassType DEF Versioned, AddFinalizer, IsCurrent
  <1>2. copy \in CustomResources /\ Finalizer \in copy.fin
    BY <1>1 DEF CustomResources
  <1> HIDE DEF copy
  <1>3. (\A n \in Clusters : Moved(n)) /\ Guarded(cr'[req])
    BY <1>1, <1>2, UpdateMoves
  <1>4. \/ pc' = "lookup" /\ req' = req /\ obj' = cr'[req]
        \/ pc' = "idle"
    BY DEF AddFinalizer, Answered, Retry, Drop
  <1>5. \A n \in Clusters :
            /\ cr'[n] # None => cr'[n].rv <= rev'
            /\ crCache[n] # None => crCache[n].rv <= rev'
            /\ Follows(crCache[n], cr'[n])
    BY <1>1, <1>3, CachedVersions
  <1>6. cr'[req] # None /\ cr'[req].rv \in Nat
    BY <1>1, <1>3 DEF Guarded, TypeOK, ApiTypeOK, CustomResources
  <1>7. pc' \notin {"idle", "fetch"} => obj'.rv <= rev' /\ Follows(obj', cr'[req'])
    BY <1>1, <1>4, <1>5, <1>6 DEF Follows
  <1> QED
    BY <1>1, <1>3, <1>5, <1>7 DEF VersionsFollow, Follows

LEMMA ReleaseVersions ==
    ASSUME Versioned, TypeOK', RemoveFinalizer
    PROVE  VersionsFollow' /\ \A n \in Clusters : Moved(n)
  <1> DEFINE copy == [obj EXCEPT !.fin = obj.fin \ {Finalizer}]
  <1>1. /\ TypeOK /\ UNCHANGED crCache /\ pc' = "idle"
        /\ req \in Clusters /\ obj \in CustomResources /\ cr[req] # None
        /\ Update(req, copy)
    BY PassType DEF Versioned, RemoveFinalizer, IsCurrent, Answered, Finish, Retry, Drop
  <1>2. copy \in CustomResources
    BY <1>1 DEF CustomResources
  <1> HIDE DEF copy
  <1>3. \A n \in Clusters : Moved(n)
    BY <1>1, <1>2, UpdateMoves
  <1> QED
    BY <1>1, <1>3, CachedVersions DEF VersionsFollow, Follows

\* The manager itself.
LEMMA ManagerVersions ==
    ASSUME Versioned, TypeOK', ManagerNext
    PROVE  VersionsFollow' /\ \A n \in Clusters : Moved(n)
  <1>0. \A n \in Clusters : cr[n] # None => cr[n].rv \in Nat
    BY DEF Versioned, TypeOK, ApiTypeOK, CustomResources
  <1>1. CASE AddFinalizer
    BY <1>1, GuardVersions
  <1>2. CASE RemoveFinalizer
    BY <1>2, ReleaseVersions
  <1>3. CASE UNCHANGED <<cr, rev>>
    <2>1. \A n \in Clusters : Moved(n)
      BY <1>3 DEF Moved, Versioned, TypeOK, ApiTypeOK
    <2>2. CASE /\ UNCHANGED crCache
               /\ \/ UNCHANGED <<req, obj>> /\ pc \notin {"idle", "fetch"}
                  \/ pc' \in {"idle", "fetch"}
      BY <1>3, <2>1, <2>2 DEF Versioned, VersionsFollow, Follows
    <2>3. CASE crCache' = cr /\ pc' = "idle"
      BY <1>0, <1>3, <2>1, <2>3 DEF Versioned, VersionsFollow, Follows
    <2>4. ASSUME NEW n \in Clusters, DeliverCluster(n)
          PROVE  VersionsFollow'
      <3>1. /\ UNCHANGED <<pc, req, obj>>
            /\ \A m \in Clusters : crCache'[m] = IF m = n THEN cr[n] ELSE crCache[m]
        BY <2>4 DEF DeliverCluster, workerVars, Versioned, TypeOK
      <3> QED
        BY <1>0, <1>3, <3>1 DEF Versioned, VersionsFollow, Follows
    <2>5. CASE FetchCluster
      <3>1. UNCHANGED crCache /\ req' = req /\ req \in Clusters /\ obj' = crCache[req]
        BY <2>5 DEF FetchCluster, Versioned, TypeOK, WorkerTypeOK
      <3>2. crCache[req] # None
        BY <2>5 DEF FetchCluster
      <3> QED
        BY <1>3, <2>1, <3>1, <3>2 DEF Versioned, VersionsFollow, Follows
    <2>6. CASE UNCHANGED <<crCache, pc, req, obj>>
      BY <1>3, <2>1, <2>6 DEF Versioned, VersionsFollow, Follows
    <2>7. \/ /\ UNCHANGED crCache
             /\ \/ UNCHANGED <<req, obj>> /\ pc \notin {"idle", "fetch"}
                \/ pc' \in {"idle", "fetch"}
          \/ crCache' = cr /\ pc' = "idle"
          \/ \E n \in Clusters : DeliverCluster(n)
          \/ FetchCluster
          \/ UNCHANGED <<crCache, pc, req, obj>>
          \/ AddFinalizer \/ RemoveFinalizer
      BY DEF ManagerNext, Running, Reconcile, apiVars, workerVars, Dequeue, DeliverObjects,
             FetchNothing, AddFinalizerConflict, SkipExisting, LookUp, RenderFails, Write,
             WriteRefused, Announce, DeleteObject, RemoveFinalizerConflict, CallFails, Restart,
             Answered, Advance, GoTo, Finish, Retry, Drop
    <2> QED
      BY <1>1, <1>2, <2>1, <2>2, <2>3, <2>4, <2>5, <2>6, <2>7
  <1>4. AddFinalizer \/ RemoveFinalizer \/ UNCHANGED <<cr, rev>>
    BY DEF ManagerNext, Running, Reconcile, apiVars, Dequeue, DeliverCluster, DeliverObjects,
           FetchNothing, FetchCluster, AddFinalizerConflict, SkipExisting, LookUp, RenderFails,
           Write, WriteRefused, Announce, DeleteObject, RemoveFinalizerConflict, CallFails,
           Restart
  <1> QED
    BY <1>1, <1>2, <1>3, <1>4

LEMMA VersionedInit == Init => Versioned
  <1>1. Init => VersionsFollow
    BY DEF Init, ApiInit, VersionsFollow, Follows
  <1> QED
    BY <1>1, TypeInit DEF Versioned

LEMMA VersionedStep == Versioned /\ [Next]_vars => Versioned'
  <1> SUFFICES ASSUME Versioned, [Next]_vars
               PROVE  Versioned'
    OBVIOUS
  <1>1. TypeOK /\ TypeOK'
    BY TypeStep DEF Versioned
  <1>2. CASE UserNext /\ UNCHANGED managerVars
    BY <1>1, <1>2, UserMoves, OthersVersions DEF Versioned
  <1>3. CASE ManagerNext
    BY <1>1, <1>3, ManagerVersions DEF Versioned
  <1>4. CASE UNCHANGED vars
    BY <1>1, <1>4 DEF vars, managerVars, apiVars, workerVars, Versioned, VersionsFollow, Follows
  <1> QED
    BY <1>2, <1>3, <1>4 DEF Next

-----------------------------------------------------------------------------
\* Updates of the AxonOpsCassandra object.

\* Apart from the finalizer of the operator, an Update from an unchanged copy
\* changes nothing.
LEMMA UpdateKeeps ==
    ASSUME TypeOK, NEW m \in Clusters, NEW fin \in SUBSET (ForeignFinalizers \cup {Finalizer}),
           cr[m] # None, fin \ {Finalizer} = cr[m].fin \ {Finalizer},
           Update(m, [cr[m] EXCEPT !.fin = fin])
    PROVE  /\ cr[m].fin \ {Finalizer} = IF cr'[m] = None THEN {} ELSE cr'[m].fin \ {Finalizer}
           /\ cr'[m] # None => cr'[m].spec = cr[m].spec
  <1> DEFINE copy == [cr[m] EXCEPT !.fin = fin]
             new  == Updated(cr[m], copy)
  <1>1. cr[m] \in CustomResources /\ rev \in Nat
    BY DEF TypeOK, ApiTypeOK
  <1>2. copy \in CustomResources /\ copy.fin = fin /\ copy.spec = cr[m].spec
    BY <1>1 DEF CustomResources
  <1>3. new.fin = fin /\ new.spec = cr[m].spec
    BY <1>1, <1>2 DEF Updated, CustomResources
  <1>4. new \in CustomResources
    BY <1>1, <1>2, UpdatedType
  <1>5. cr'[m] = Stored(new)
    BY DEF Update, TypeOK, ApiTypeOK
  <1> HIDE DEF new
  <1>6. cr'[m] = None => fin = {}
    BY <1>3, <1>4, <1>5, ApiAssumption DEF Stored
  <1>7. cr'[m] # None => cr'[m] = new
    BY <1>5 DEF Stored
  <1> QED
    BY <1>3, <1>6, <1>7

\* Whatever a manager does, it changes nothing of an object but its own finalizer.
LEMMA ManagerKeeps ==
    ASSUME Versioned, ManagerNext, NEW n \in Clusters
    PROVE  TouchesOnlyFinalizer(n)
  <1> SUFFICES ASSUME cr'[n] # cr[n]
               PROVE  /\ cr[n].fin \ {Finalizer} = IF cr'[n] = None THEN {}
                                                   ELSE cr'[n].fin \ {Finalizer}
                      /\ cr'[n] # None => cr'[n].spec = cr[n].spec
    BY DEF TouchesOnlyFinalizer
  <1>1. TypeOK
    BY DEF Versioned
  <1>2. AddFinalizer \/ RemoveFinalizer
    BY DEF ManagerNext, Running, Reconcile, workerVars, apiVars, DeliverCluster,
           DeliverObjects, Dequeue, FetchNothing, FetchCluster, AddFinalizerConflict,
           SkipExisting, LookUp, RenderFails, Write, WriteRefused, Announce, DeleteObject,
           RemoveFinalizerConflict, CallFails, Restart
  <1>3. /\ req \in Clusters /\ obj \in CustomResources /\ cr[req] # None
        /\ obj = cr[req]
    BY <1>1, <1>2, PassType, ApiAssumption
       DEF AddFinalizer, RemoveFinalizer, IsCurrent, Versioned, VersionsFollow, Follows
  <1>4. PICK fin \in SUBSET (ForeignFinalizers \cup {Finalizer}) :
            /\ fin \ {Finalizer} = obj.fin \ {Finalizer}
            /\ Update(req, [obj EXCEPT !.fin = fin])
    <2>1. obj.fin \in SUBSET (ForeignFinalizers \cup {Finalizer})
      BY <1>3 DEF CustomResources
    <2>2. CASE AddFinalizer
      BY <2>1, <2>2 DEF AddFinalizer
    <2>3. CASE RemoveFinalizer
      BY <2>1, <2>3 DEF RemoveFinalizer
    <2> QED
      BY <1>2, <2>2, <2>3
  <1>5. n = req
    BY <1>1, <1>4 DEF Update, TypeOK, ApiTypeOK
  <1> QED
    BY <1>1, <1>3, <1>4, <1>5, UpdateKeeps

\* The two Updates of a pass change nothing of the object but the finalizer of the
\* operator, although they write back the whole cached copy.
THEOREM UpdatesKeep == Spec => NoLostUpdate
  <1> DEFINE Kept == pc' # pc => \A n \in Clusters : TouchesOnlyFinalizer(n)
  <1>1. Versioned /\ [Next]_vars => [Kept]_vars
    <2> SUFFICES ASSUME Versioned, Next, pc' # pc
                 PROVE  \A n \in Clusters : TouchesOnlyFinalizer(n)
      OBVIOUS
    <2>1. ManagerNext
      BY DEF Next, managerVars, workerVars
    <2> QED
      BY <2>1, ManagerKeeps
  <1> QED
    BY <1>1, VersionedInit, VersionedStep, PTL DEF Spec, NoLostUpdate
==============================================================================
