--------------------------- MODULE NamespaceProofs ---------------------------
(***************************************************************************)
(* Proof that a manager that was given a list of namespaces leaves the     *)
(* others alone.                                                           *)
(***************************************************************************)
EXTENDS Namespaces, IsolationProofs

-----------------------------------------------------------------------------
\* A list with a name in it is read as exactly the names in it, so that the caches
\* hold no cluster of another namespace.
LEMMA WatchedNamed ==
    ASSUME NEW f \in Flags, NEW n \in Clusters, NamesIn(f) # {}, Watched(f, n)
    PROVE  Named(f, n)
  <1>1. f \in Seq(Entries)
    BY NamespacesAssumption
  <1>2. \A i \in DOMAIN f : f[i] \in Entries
    BY <1>1
  <1>3. PICK i \in DOMAIN f : f[i].name # ""
    BY DEF NamesIn
  <1>4. TrimSpace(f[i]) \in NamespaceConfigs(f)
    <2>1. TrimSpace(f[i]).name = f[i].name
      BY <1>2 DEF TrimSpace, Entries
    <2>2. Empty.name = ""
      BY DEF Empty
    <2>3. TrimSpace(f[i]) # Empty
      BY <1>3, <2>1, <2>2
    <2> QED
      BY <2>3 DEF NamespaceConfigs
  <1>5. NamespaceOf[n] \in NamespaceConfigs(f)
    BY <1>4 DEF Watched, NamespaceConfigs
  <1>6. PICK j \in DOMAIN f : NamespaceOf[n] = TrimSpace(f[j])
    BY <1>5 DEF NamespaceConfigs
  <1>7. NamespaceOf[n].name = f[j].name
    BY <1>2, <1>6 DEF TrimSpace, Entries
  <1>8. NamespaceOf[n].name # ""
    BY NamespacesAssumption
  <1> QED
    BY <1>7, <1>8 DEF Named, NamesIn

-----------------------------------------------------------------------------
\* A cluster in no namespace the manager was given is neither queued nor reconciled.
Unnamed == \A n \in Clusters :
               NamesIn(flag) # {} /\ ~Named(flag, n) => n \notin queue /\ req # n

NamespaceInv == TypeOK /\ flag \in Flags /\ Unnamed

LEMMA NamespaceInit == NamespacesInit => NamespaceInv
  <1> SUFFICES ASSUME NamespacesInit
               PROVE  NamespaceInv
    OBVIOUS
  <1>1. Init /\ flag \in Flags
    BY DEF NamespacesInit
  <1>2. queue = {} /\ req = <<>> /\ <<>> \notin Clusters
    BY <1>1, ClustersAssumption DEF Init
  <1> QED
    BY <1>1, <1>2, TypeInit DEF NamespaceInv, Unnamed

\* A manager is restarted, with whatever value of the flag.
LEMMA RestartNamed ==
    ASSUME NamespaceInv, NEW f \in Flags, RestartWith(f)
    PROVE  NamespaceInv'
  <1>1. budget' \in [Disturbances -> Nat]
    BY SpendType DEF NamespaceInv, TypeOK, ApiTypeOK, RestartWith, Disturbances
  <1>2. TypeOK'
    BY <1>1 DEF NamespaceInv, TypeOK, ApiTypeOK, WorkerTypeOK, PcValues, RestartWith, Drop
  <1>3. req' = <<>> /\ <<>> \notin Clusters
    BY ClustersAssumption DEF RestartWith, Drop
  <1>4. \A n \in Clusters : NamesIn(f) # {} /\ ~Named(f, n) => n \notin queue'
    BY WatchedNamed DEF RestartWith
  <1>5. flag' = f
    BY DEF RestartWith
  <1>6. Unnamed'
    BY <1>3, <1>4, <1>5 DEF Unnamed, NamesIn, Named
  <1> QED
    BY <1>2, <1>5, <1>6 DEF NamespaceInv

\* A manager that runs queues only what it watches.
LEMMA RunningNamed ==
    ASSUME NamespaceInv, UNCHANGED flag,
           \/ \E n \in Clusters : DeliverWatched(n) \/ Dequeue(n)
           \/ \E kind \in Kinds : DeliverObjects(kind)
           \/ Reconcile \/ CallFails
    PROVE  NamespaceInv'
  <1>1. Running
    BY DEF Running, DeliverWatched
  <1>2. TypeOK'
    BY <1>1, TypeStep DEF NamespaceInv, Next, ManagerNext
  <1>3. Unnamed'
    <2> SUFFICES ASSUME NEW n \in Clusters, NamesIn(flag) # {}, ~Named(flag, n)
                 PROVE  n \notin queue' /\ req' # n
      BY DEF Unnamed, NamesIn, Named
    <2>1. n \notin queue /\ req # n /\ <<>> # n
      BY ClustersAssumption DEF NamespaceInv, Unnamed
    <2>2. ASSUME NEW m \in Clusters, DeliverWatched(m)
          PROVE  n \notin queue' /\ req' # n
      <3>1. m # n
        BY <2>2, WatchedNamed DEF DeliverWatched, NamespaceInv
      <3> QED
        BY <2>1, <2>2, <3>1 DEF DeliverWatched, DeliverCluster, workerVars
    <2>3. ASSUME NEW m \in Clusters, Dequeue(m)
          PROVE  n \notin queue' /\ req' # n
      BY <2>1, <2>3 DEF Dequeue
    <2>4. ASSUME NEW kind \in Kinds, DeliverObjects(kind)
          PROVE  n \notin queue' /\ req' # n
      BY <2>1, <2>4 DEF DeliverObjects, workerVars
    <2>5. CASE Reconcile \/ CallFails
      <3>1. queue' \in {queue, queue \cup {req}} /\ req' \in {req, <<>>}
        BY <2>5 DEF Reconcile, apiVars, FetchNothing, FetchCluster, AddFinalizer,
              AddFinalizerConflict, SkipExisting, LookUp, RenderFails, Write,
              WriteRefused, Announce, DeleteObject, RemoveFinalizer,
              RemoveFinalizerConflict, CallFails, Answered, Advance, GoTo, Finish,
              Retry, Drop
      <3> QED
        BY <2>1, <3>1
    <2> QED
      BY <2>2, <2>3, <2>4, <2>5
  <1> QED
    BY <1>2, <1>3 DEF NamespaceInv

LEMMA NamespaceStep == NamespaceInv /\ [NamespacesNext]_namespacesVars => NamespaceInv'
  <1> SUFFICES ASSUME NamespaceInv, [NamespacesNext]_namespacesVars
               PROVE  NamespaceInv'
    OBVIOUS
  <1>1. CASE UserNext /\ UNCHANGED <<managerVars, flag>>
    <2>1. TypeOK'
      BY <1>1, TypeStep DEF NamespaceInv, Next
    <2> QED
      BY <1>1, <2>1 DEF NamespaceInv, Unnamed, NamesIn, Named, managerVars, workerVars
  <1>2. CASE UNCHANGED namespacesVars
    <2>1. TypeOK'
      BY <1>2, TypeStep DEF NamespaceInv, namespacesVars
    <2> QED
      BY <1>2, <2>1 DEF NamespaceInv, Unnamed, NamesIn, Named, namespacesVars, vars,
                        managerVars, workerVars
  <1> QED
    BY <1>1, <1>2, RestartNamed, RunningNamed DEF NamespacesNext

-----------------------------------------------------------------------------
\* A manager that was given at least one name changes nothing in any other namespace,
\* whatever blanks and empty entries the list has, and whatever a manager that was
\* given another list has left undone (main, lines 105-129).
THEOREM OthersLeftAlone ==
    ASSUME NamesUnambiguous
    PROVE  NamespacesSpec => HandsOff
  <1> DEFINE Off == workerVars' # workerVars /\ NamesIn(flag) # {} =>
                       \A n \in Clusters : ~Named(flag, n) =>
                          cr'[n] = cr[n] /\ \A k \in Kids(n) : store'[k] = store[k]
  <1>1. NamespaceInv /\ [NamespacesNext]_namespacesVars => [Off]_namespacesVars
    <2> SUFFICES ASSUME NamespaceInv, NamespacesNext, workerVars' # workerVars,
                        NamesIn(flag) # {}, NEW n \in Clusters, ~Named(flag, n)
                 PROVE  cr'[n] = cr[n] /\ \A k \in Kids(n) : store'[k] = store[k]
      OBVIOUS
    <2>1. TypeOK /\ n # req
      BY DEF NamespaceInv, Unnamed
    <2>2. CASE Running
      <3>1. \A k \in Kids(n) : store'[k] = store[k]
        BY <2>1, <2>2, OthersStay DEF ManagerNext
      <3>2. AddFinalizer \/ RemoveFinalizer \/ UNCHANGED cr
        BY <2>2 DEF Running, Reconcile, apiVars, Dequeue, DeliverCluster, DeliverObjects,
              FetchNothing, FetchCluster, AddFinalizerConflict, SkipExisting, LookUp,
              RenderFails, Write, WriteRefused, Announce, DeleteObject,
              RemoveFinalizerConflict, CallFails
      <3>3. cr'[n] = cr[n]
        BY <2>1, <3>2 DEF AddFinalizer, RemoveFinalizer, Update, TypeOK, ApiTypeOK
      <3> QED
        BY <3>1, <3>3
    <2>3. CASE \E f \in Flags : RestartWith(f)
      BY <2>3 DEF RestartWith
    <2> QED
      BY <2>2, <2>3 DEF NamespacesNext, Running, DeliverWatched, managerVars
  <1> QED
    BY <1>1, NamespaceInit, NamespaceStep, PTL DEF NamespacesSpec, HandsOff
==============================================================================
