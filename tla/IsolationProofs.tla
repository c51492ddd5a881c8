--------------------------- MODULE IsolationProofs ---------------------------
(***************************************************************************)
(* Proof that a pass for one cluster touches no object of another one.     *)
(***************************************************************************)
EXTENDS OrphanProofs

\* What a pass for n creates, updates or deletes.
Touched(n) == Kids(n) \cup MetricsKids(n) \cup {Sts(CaMt(n)), Svc(CaMt(n))}

LEMMA DoomedObjects ==
    ASSUME NEW n \in Clusters, NEW i \in StageIds
    PROVE  Doomed(n, i) \in Touched(n)
  <1>1. i \in {1, 2, 3, 4} \/ i \in {5, 6, 7, 8} \/ i \in {9, 10, 11}
    BY DEF StageIds
  <1>2. CASE i \in {1, 2, 3, 4}
    BY <1>2 DEF Doomed, Touched, Kids
  <1>3. CASE i \in {5, 6, 7, 8}
    BY <1>3 DEF Doomed, Touched, Kids
  <1>4. CASE i \in {9, 10, 11}
    BY <1>4 DEF Doomed, Touched, Kids
  <1> QED
    BY <1>1, <1>2, <1>3, <1>4

LEMMA Pair ==
    ASSUME NEW S, NEW p \in S, NEW q \in S
    PROVE  <<p, q>> = <<p>> \o <<q>>
  <1>1. /\ <<p, q>> \in Seq(S) /\ Len(<<p, q>>) = 2
        /\ <<p, q>>[1] = p /\ <<p, q>>[2] = q
    OBVIOUS
  <1>2. /\ <<p>> \o <<q>> \in Seq(S) /\ Len(<<p>> \o <<q>>) = 2
        /\ (<<p>> \o <<q>>)[1] = p /\ (<<p>> \o <<q>>)[2] = q
    BY Singleton, ConcatProperties
  <1> DEFINE s == <<p, q>>
             t == <<p>> \o <<q>>
  <1>3. s \in Seq(S) /\ t \in Seq(S) /\ Len(s) = Len(t) /\ \A i \in 1 .. Len(s) : s[i] = t[i]
    BY <1>1, <1>2
  <1> HIDE DEF s, t
  <1>4. s = t
    BY <1>3, SeqEqual
  <1> QED
    BY <1>4 DEF s, t

\* The name a metrics cluster is looked up by begins like that of a Cassandra.
LEMMA CaMtName ==
    ASSUME NEW n \in Clusters
    PROVE  /\ CaMt(n) = <<"ca">> \o (<<"mt">> \o n)
           /\ <<"mt">> \o n \in Seq(STRING)
  <1>1. "ca" \in STRING /\ "mt" \in STRING
    BY PrefixesAssumption DEF Prefixes
  <1>2. <<"ca">> \in Seq(STRING) /\ <<"mt">> \in Seq(STRING) /\ n \in Seq(STRING)
    BY <1>1, Singleton, ClusterNames
  <1>3. <<"ca", "mt">> = <<"ca">> \o <<"mt">>
    BY <1>1, Pair
  <1>4. (<<"ca">> \o <<"mt">>) \o n = <<"ca">> \o (<<"mt">> \o n)
    BY <1>2, ConcatAssociative
  <1> QED
    BY <1>2, <1>3, <1>4, ConcatProperties DEF CaMt

\* What the names of the objects of a metrics cluster share with others.
LEMMA MetricsApart ==
    ASSUME NEW n \in Clusters, NEW m \in Clusters, n # m, NEW k \in MetricsKids(n)
    PROVE  k \notin MetricsKids(m)
  <1> SUFFICES ASSUME k \in MetricsKids(m)
               PROVE  FALSE
    OBVIOUS
  <1>1. /\ "ca" \in STRING /\ "metrics" \in STRING
        /\ n \in Seq(STRING) /\ m \in Seq(STRING)
        /\ Metrics(n) \in Seq(STRING) /\ Metrics(m) \in Seq(STRING)
    BY PrefixesAssumption, ClusterNames DEF Prefixes
  <1>2. <<"ca">> \o Metrics(n) = <<"ca">> \o Metrics(m)
    BY MetricsKidNames
  <1>3. Metrics(n) = Metrics(m)
    BY <1>1, <1>2, Gluing
  <1> QED
    BY <1>1, <1>3, Gluing DEF Metrics

\* The objects a pass for n touches are no objects of another environment.
LEMMA TouchedApart ==
    ASSUME NamesUnambiguous, NEW n \in Clusters, NEW m \in Clusters, n # m,
           NEW k \in Touched(n)
    PROVE  k \notin Kids(m) \cup MetricsKids(m)
  <1>1. CASE k \in Kids(n) \cup MetricsKids(n)
    BY <1>1, Apart, MetricsApart
  <1>2. CASE k \in {Sts(CaMt(n)), Svc(CaMt(n))}
    <2>1. k.name = <<"ca">> \o (<<"mt">> \o n) /\ <<"mt">> \o n \in Seq(STRING)
      BY <1>2, CaMtName DEF Sts, Svc
    <2>2. /\ "ca" \in STRING /\ "mt" \in STRING /\ "metrics" \in STRING
          /\ n \in Seq(STRING) /\ m \in Seq(STRING) /\ Metrics(m) \in Seq(STRING)
      BY PrefixesAssumption, ClusterNames DEF Prefixes
    <2>3. k \notin Kids(m)
      <3> SUFFICES ASSUME k \in Kids(m)
                   PROVE  FALSE
        OBVIOUS
      <3>1. PICK q \in STRING : k.name = <<q>> \o m
        BY KidNames
      <3> DEFINE t == <<"mt">> \o n
      <3>2. t \in Seq(STRING) /\ <<"ca">> \o t = <<q>> \o m
        BY <2>1, <3>1
      <3> HIDE DEF t
      <3>3. t = m
        BY <2>2, <3>2, Gluing
      <3> QED
        BY <3>3 DEF NamesUnambiguous, t
    <2>4. k \notin MetricsKids(m)
      <3> SUFFICES ASSUME k \in MetricsKids(m)
                   PROVE  FALSE
        OBVIOUS
      <3>1. <<"mt">> \o n = Metrics(m)
        BY <2>1, <2>2, MetricsKidNames, Gluing
      <3>2. "mt" = "metrics"
        BY <2>2, <3>1, Gluing DEF Metrics
      <3> QED
        BY <3>2
    <2> QED
      BY <2>3, <2>4
  <1> QED
    BY <1>1, <1>2 DEF Touched

\* Whatever a manager does, the objects of other clusters stay as they are.
LEMMA OthersStay ==
    ASSUME NamesUnambiguous, TypeOK, ManagerNext, NEW m \in Clusters \ {req},
           NEW k \in Kids(m) \cup MetricsKids(m)
    PROVE  store'[k] = store[k]
  <1>1. k \in Keys /\ store \in [Keys -> Objects \cup {None}]
    BY DEF Keys, TypeOK, ApiTypeOK
  <1>2. Write \/ DeleteObject \/ UNCHANGED store
    BY DEF ManagerNext, Running, Reconcile, managerVars, apiVars, DeliverCluster,
           DeliverObjects, Restart, Dequeue, FetchNothing, FetchCluster, AddFinalizer,
           AddFinalizerConflict, SkipExisting, LookUp, RenderFails, WriteRefused,
           Announce, RemoveFinalizer, RemoveFinalizerConflict, CallFails
  <1>3. Write \/ DeleteObject => req \in Clusters /\ step \in StageIds
    BY PassType DEF Write, DeleteObject, TypeOK, WorkerTypeOK
  <1>4. CASE Write
    <2>1. ThisStage.target \in Touched(req)
      BY <1>3, <1>4, StageObjects DEF ThisStage, Touched
    <2>2. k # ThisStage.target
      BY <1>3, <1>4, <2>1, TouchedApart
    <2> QED
      BY <1>1, <1>4, <2>2 DEF Write
  <1>5. CASE DeleteObject
    <2>1. k # Doomed(req, step)
      BY <1>3, <1>5, DoomedObjects, TouchedApart
    <2> QED
      BY <1>1, <1>5, <2>1 DEF DeleteObject
  <1> QED
    BY <1>2, <1>4, <1>5

\* A pass for one cluster leaves the objects of every other cluster alone, as long
\* as no cluster bears the name of a metrics cluster of another: the isolation that
\* the names of all generated objects give to environments in one namespace.
THEOREM Isolated ==
    ASSUME NamesUnambiguous
    PROVE  Spec => Isolation
  <1> DEFINE Alone == workerVars' # workerVars /\ store' # store =>
                         \A m \in Clusters \ {req} :
                            \A k \in Kids(m) \cup MetricsKids(m) : store'[k] = store[k]
  <1>1. TypeOK /\ [Next]_vars => [Alone]_vars
    <2> SUFFICES ASSUME TypeOK, Next, workerVars' # workerVars
                 PROVE  \A m \in Clusters \ {req} :
                           \A k \in Kids(m) \cup MetricsKids(m) : store'[k] = store[k]
      OBVIOUS
    <2>1. ManagerNext
      BY DEF Next, managerVars
    <2> QED
      BY <2>1, OthersStay
  <1> QED
    BY <1>1, TypeCorrect, TypeInit, TypeStep, PTL DEF Spec, Isolation
=============================================================================
