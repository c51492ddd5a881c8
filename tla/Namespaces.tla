----------------------------- MODULE Namespaces -----------------------------
(***************************************************************************)
(* The flag --watch-namespaces: how main reads it, what the caches of the  *)
(* manager then hold, and a manager that is restarted with another value   *)
(* while clusters live in namespaces it watches and in others.             *)
(*                                                                         *)
(* The value of the flag is the sequence of its comma-separated entries,   *)
(* <<>> when the flag is empty.  An entry is a name, or nothing, with or   *)
(* without blanks around it.  The generated objects of a cluster are in    *)
(* the namespace of the cluster; what the cache says of other namespaces   *)
(* is never asked.                                                         *)
(***************************************************************************)
EXTENDS OperatorProperties

CONSTANTS NamespaceOf,   \* NamespaceOf[n]: the namespace cluster n is in
          Flags          \* the values the flag is given

VARIABLE flag            \* the value the running manager was started with

namespacesVars == <<vars, flag>>

Entries == [name : STRING, padded : BOOLEAN]

ASSUME NamespacesAssumption ==
    /\ NamespaceOf \in [Clusters -> Entries]
    /\ \A n \in Clusters : NamespaceOf[n].name # "" /\ ~NamespaceOf[n].padded
    /\ Flags \subseteq Seq(Entries)

TrimSpace(entry) == [entry EXCEPT !.padded = FALSE]

Empty == [name |-> "", padded |-> FALSE]

\* Mutants of NamespaceConfigs: an entry without a name is kept; a name keeps the
\* blanks around it.
NamespaceConfigsWithEmpty(f) == { TrimSpace(f[i]) : i \in DOMAIN f }
NamespaceConfigsUntrimmed(f) == { f[i] : i \in DOMAIN f } \ {Empty}

\* The namespaces main configures the caches for.
NamespaceConfigs(f) == { TrimSpace(f[i]) : i \in DOMAIN f } \ {Empty}

\* The caches hold the objects of n.  To them the empty name, and the absence of
\* any name, stand for all namespaces.
Watched(f, n) == \/ NamespaceConfigs(f) = {}
                 \/ Empty \in NamespaceConfigs(f)
                 \/ NamespaceOf[n] \in NamespaceConfigs(f)

NamespacesInit == Init /\ flag \in Flags

\* The manager is started anew with the value f, and lists what it watches.
RestartWith(f) ==
    /\ Spend("restart")
    /\ flag' = f
    /\ crCache' = [n \in Clusters |-> IF Watched(f, n) THEN cr[n] ELSE None]
    /\ seen' = [k \in Keys |-> store[k] # None]
    /\ queue' = {n \in Clusters : Watched(f, n) /\ cr[n] # None}
    /\ Drop
    /\ UNCHANGED <<cr, store, rev>>

DeliverWatched(n) == Watched(flag, n) /\ DeliverCluster(n)

NamespacesNext ==
    \/ UserNext /\ UNCHANGED <<managerVars, flag>>
    \/ /\ \/ \E n \in Clusters : DeliverWatched(n) \/ Dequeue(n)
          \/ \E kind \in Kinds : DeliverObjects(kind)
          \/ Reconcile \/ CallFails
       /\ UNCHANGED flag
    \/ \E f \in Flags : RestartWith(f)

\* The fairness of Operator, for the namespaces that are watched.
NamespacesFairness ==
    /\ WF_namespacesVars(Reconcile /\ UNCHANGED flag)
    /\ \A n \in Clusters : /\ WF_namespacesVars(DeliverWatched(n) /\ UNCHANGED flag)
                           /\ SF_namespacesVars(Dequeue(n) /\ UNCHANGED flag)
    /\ \A kind \in Kinds : WF_namespacesVars(DeliverObjects(kind) /\ UNCHANGED flag)

NamespacesSpec ==
    NamespacesInit /\ [][NamespacesNext]_namespacesVars /\ NamespacesFairness

-----------------------------------------------------------------------------
\* The names in the value f, and whether n is in one of those namespaces.
NamesIn(f)  == { f[i].name : i \in DOMAIN f } \ {""}
Named(f, n) == NamespaceOf[n].name \in NamesIn(f)

\* A manager that was given at least one name changes nothing in any other
\* namespace, whatever blanks and empty entries the list has and whatever was
\* under way when it was restarted (main, lines 105-129).
HandsOff ==
    [][workerVars' # workerVars /\ NamesIn(flag) # {} =>
          \A n \in Clusters : ~Named(flag, n) =>
             cr'[n] = cr[n] /\ \A k \in Kids(n) : store'[k] = store[k]]_namespacesVars

\* A cluster created, edited or deleted while its namespace was not watched, or
\* left half built by a manager that no longer watches it, is taken care of once a
\* manager is started that names the namespace: it is built, or released (main,
\* lines 105-129; Reconcile, lines 52-53 and 98-127).
NamedSettle ==
    <>[](\A n \in Clusters : Named(flag, n) =>
            /\ Live(n) /\ Acceptable(n) => Applied(n)
            /\ ~(Terminating(cr[n]) /\ Guarded(cr[n])))
=============================================================================
