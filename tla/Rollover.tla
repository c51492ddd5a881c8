------------------------------ MODULE Rollover ------------------------------
(***************************************************************************)
(* Two managers over one API server, as when a Deployment replaces the pod *)
(* of the operator: the new process starts before the old one stops.       *)
(*                                                                         *)
(* Without --leader-elect, the default, both run their controllers at the  *)
(* same time.  With it the new process stands by until the lease of the    *)
(* old one has expired.  A process that loses its lease ends, and one that *)
(* is asked to stop renews its lease until its worker is done, so that the *)
(* lease expires only after the old process has come to its end.  The      *)
(* watches of the new process begin with a list, made when its controller  *)
(* starts.                                                                 *)
(*                                                                         *)
(* The first manager has the variables of Operator; the second one has     *)
(* variables of its own.                                                   *)
(***************************************************************************)
EXTENDS OperatorProperties

CONSTANT LeaderElect   \* the flag --leader-elect

ASSUME LeaderElectAssumption == LeaderElect \in BOOLEAN

VARIABLES crCache2, seen2, queue2,           \* the second manager, as in Operator
          pc2, req2, obj2, step2, found2,
          up,      \* the processes that run
          lease    \* the process that holds the lease, or "off" without leader election

managerVars2 == <<crCache2, seen2, queue2, pc2, req2, obj2, step2, found2>>
rolloverVars == <<apiVars, managerVars, managerVars2, up, lease>>

\* The module instantiated is Operator together with what is proved of one manager.
Second == INSTANCE VersionProofs
    WITH crCache <- crCache2, seen <- seen2, queue <- queue2, pc <- pc2,
         req <- req2, obj <- obj2, step <- step2, found <- found2

RolloverInit ==
    /\ Init /\ Second!Init
    /\ up = {"first"}
    /\ lease = IF LeaderElect THEN "first" ELSE "off"

\* The process runs its controller: the first one from the start to its end, the
\* second one once it is the leader.  No call asks for the lease again.
Active(process) ==
    /\ process \in up
    /\ process = "second" => lease \in {"off", "second"}

\* The new process starts.  Without leader election its controller does, too.
StartSecond ==
    /\ "second" \notin up
    /\ up' = up \cup {"second"}
    /\ IF LeaderElect THEN UNCHANGED <<apiVars, managerVars2>> ELSE Second!Restart
    /\ UNCHANGED <<managerVars, lease>>

\* The old process ends, on request or by itself, whatever it is doing.  Without
\* leader election nothing depends on it: a process that ends is one that takes no
\* further step.
StopFirst ==
    /\ LeaderElect /\ "first" \in up
    /\ up' = up \ {"first"}
    /\ UNCHANGED <<apiVars, managerVars, managerVars2, lease>>

\* Mutant of Acquire: the new process does not wait for the lease.
AcquireUnguarded ==
    /\ lease = "first" /\ "second" \in up
    /\ lease' = "second"
    /\ Second!Restart
    /\ UNCHANGED <<managerVars, up>>

\* The lease has expired: the new process becomes the leader and its controller
\* starts.
Acquire ==
    /\ lease = "first" /\ "second" \in up
    /\ "first" \notin up
    /\ lease' = "second"
    /\ Second!Restart
    /\ UNCHANGED <<managerVars, up>>

RolloverNext ==
    \/ UserNext /\ UNCHANGED <<managerVars, managerVars2, up, lease>>
    \/ Active("first") /\ Running /\ UNCHANGED <<managerVars2, up, lease>>
    \/ Active("second") /\ Second!Running /\ UNCHANGED <<managerVars, up, lease>>
    \/ StartSecond \/ StopFirst \/ Acquire

RolloverSpec == RolloverInit /\ [][RolloverNext]_rolloverVars

\* A manager that is active keeps running, as in Operator; a Deployment whose pod
\* is missing gets one, and an expired lease is acquired.
RolloverFairness ==
    LET FirstDoes(A)  == Active("first") /\ A /\ UNCHANGED <<managerVars2, up, lease>>
        SecondDoes(A) == Active("second") /\ A /\ UNCHANGED <<managerVars, up, lease>>
    IN  /\ WF_rolloverVars(FirstDoes(Reconcile))
        /\ WF_rolloverVars(SecondDoes(Second!Reconcile))
        /\ \A n \in Clusters :
              /\ WF_rolloverVars(FirstDoes(DeliverCluster(n)))
              /\ WF_rolloverVars(SecondDoes(Second!DeliverCluster(n)))
              /\ SF_rolloverVars(FirstDoes(Dequeue(n)))
              /\ SF_rolloverVars(SecondDoes(Second!Dequeue(n)))
        /\ \A kind \in Kinds :
              /\ WF_rolloverVars(FirstDoes(DeliverObjects(kind)))
              /\ WF_rolloverVars(SecondDoes(Second!DeliverObjects(kind)))
        /\ LeaderElect => WF_rolloverVars(StartSecond) /\ WF_rolloverVars(Acquire)

FairRolloverSpec == RolloverSpec /\ RolloverFairness

-----------------------------------------------------------------------------
\* The manager whose turn it is, again with what is proved of one manager.
One == INSTANCE CalmProofs
    WITH crCache <- IF lease = "second" THEN crCache2 ELSE crCache,
         seen    <- IF lease = "second" THEN seen2 ELSE seen,
         queue   <- IF lease = "second" THEN queue2 ELSE queue,
         pc      <- IF lease = "second" THEN pc2 ELSE pc,
         req     <- IF lease = "second" THEN req2 ELSE req,
         obj     <- IF lease = "second" THEN obj2 ELSE obj,
         step    <- IF lease = "second" THEN step2 ELSE step,
         found   <- IF lease = "second" THEN found2 ELSE found

\* "Enabling this will ensure there is only one active controller manager"
\* (main, lines 67-69): with leader election the two processes together are one
\* manager of Operator that is restarted once, so that everything stated about
\* one manager holds of them.
OneManager == [][LeaderElect => [One!Next]_(One!vars)]_rolloverVars

\* Even two managers that work at the same time undo no edit and touch no
\* finalizer of others: the resource version stops the slower one (Reconcile,
\* lines 77-82 and 123-126).
BothKeepUpdates ==
    [][pc' # pc \/ pc2' # pc2 =>
          \A n \in Clusters : TouchesOnlyFinalizer(n)]_rolloverVars
=============================================================================
