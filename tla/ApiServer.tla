----------------------------- MODULE ApiServer -----------------------------
(***************************************************************************)
(* The Kubernetes API server as the operator uses it: the AxonOpsCassandra *)
(* objects and the objects generated for them, the calls that change them, *)
(* and the users who create, edit and delete them.  This code is not in    *)
(* the repository: it is modelled from the calls the repository makes.     *)
(*                                                                         *)
(* An AxonOpsCassandra object carries what the controller reads of its     *)
(* metadata: uid (a new one for each incarnation of a name), rv (the       *)
(* resource version, a store-wide counter), gen (the generation, counting  *)
(* changes of the spec and the request to delete), deleting (a deletion    *)
(* timestamp is set) and fin (the finalizers).  A generated object carries *)
(* its body and, for the properties only, the uid and the generation of    *)
(* the copy it was rendered from.                                          *)
(***************************************************************************)
EXTENDS Render

CONSTANTS Specs,               \* the specs users submit
          ForeignFinalizers,   \* finalizers other controllers put on an object
          Budget,              \* how often each disturbance may happen
          None                 \* no object

VARIABLES cr,       \* cr[n]: the AxonOpsCassandra object called n, or None
          store,    \* store[k]: the generated object with key k, or None
          rev,      \* the last resource version handed out
          budget    \* the disturbances still to come

apiVars == <<cr, store, rev, budget>>

Finalizer == "axonops.com/finalizer"

CustomResources ==
    [ uid : Nat, rv : Nat, gen : Nat, deleting : BOOLEAN,
      fin : SUBSET (ForeignFinalizers \cup {Finalizer}), spec : Specs ]

\* What users, other controllers, the network and the kubelet may do, and how
\* often: every disturbance is bounded by its entry in Budget.
Disturbances == {"create", "edit", "delete", "lose", "fault", "restart"}

ASSUME ApiAssumption ==
    /\ Budget \in [Disturbances -> Nat]
    /\ Specs \subseteq AxonOpsCassandraSpec
    /\ Finalizer \notin ForeignFinalizers
    /\ None \notin CustomResources

Spend(d) == /\ budget[d] > 0
            /\ budget' = [budget EXCEPT ![d] = @ - 1]

ApiInit ==
    /\ cr = [n \in Clusters |-> None]
    /\ store = [k \in Keys |-> None]
    /\ rev = 0
    /\ budget = Budget

Guarded(c)     == c # None /\ Finalizer \in c.fin
Terminating(c) == c # None /\ c.deleting

-----------------------------------------------------------------------------
\* Calls on AxonOpsCassandra objects.

\* Mutant of IsCurrent: the update carries no resource version.
IsCurrentUnchecked(n, copy) == cr[n] # None

\* An update carries the resource version of the copy it was made from, and is
\* refused as a conflict (or as not found) when that is not the current one.
IsCurrent(n, copy) == cr[n] # None /\ cr[n].rv = copy.rv

\* The last finalizer taken off an object that is being deleted removes it.
Stored(c) == IF c.deleting /\ c.fin = {} THEN None ELSE c

\* Update takes the spec and the finalizers of the copy it is given; the API
\* server counts a change of the spec in the generation.
Updated(c, copy) ==
    [c EXCEPT !.spec = copy.spec, !.fin = copy.fin, !.rv = rev + 1,
              !.gen = IF c.spec = copy.spec THEN c.gen ELSE c.gen + 1]

Update(n, copy) ==
    /\ rev' = rev + 1
    /\ cr' = [cr EXCEPT ![n] = Stored(Updated(cr[n], copy))]

UserCreates(n, spec, foreign) ==
    /\ Spend("create")
    /\ cr[n] = None
    /\ rev' = rev + 1
    /\ cr' = [cr EXCEPT ![n] = [ uid |-> rev + 1, rv |-> rev + 1, gen |-> 1,
                                 deleting |-> FALSE, fin |-> foreign, spec |-> spec ]]
    /\ UNCHANGED store

UserEdits(n, spec) ==
    /\ Spend("edit")
    /\ cr[n] # None
    /\ cr[n].spec # spec
    /\ rev' = rev + 1
    /\ cr' = [cr EXCEPT ![n] = Updated(cr[n], [cr[n] EXCEPT !.spec = spec])]
    /\ UNCHANGED store

Marked(c) == [c EXCEPT !.deleting = TRUE, !.gen = c.gen + 1, !.rv = rev + 1]

UserDeletes(n) ==
    /\ Spend("delete")
    /\ cr[n] # None
    /\ ~cr[n].deleting
    /\ rev' = rev + 1
    /\ cr' = [cr EXCEPT ![n] = Stored(Marked(cr[n]))]
    /\ UNCHANGED store

\* Another controller takes its finalizer off an object that is being deleted.
ForeignRelease(n) ==
    /\ Terminating(cr[n])
    /\ \E f \in cr[n].fin \cap ForeignFinalizers :
          Update(n, [cr[n] EXCEPT !.fin = cr[n].fin \ {f}])
    /\ UNCHANGED <<store, budget>>

-----------------------------------------------------------------------------
\* Calls on generated objects.

\* Validation, for the rules a generated object can run into: a container may
\* not request more than its limit, an Ingress needs a rule, and the volume
\* claims of an existing StatefulSet cannot be changed.
Valid(k, body) ==
    /\ k.kind \in {"StatefulSet", "Deployment"} => body.request <= body.limit
    /\ k.kind = "Ingress" => body.rules # {}
    /\ (k.kind = "StatefulSet" /\ store[k] # None) => body.size = store[k].body.size

\* Create is refused for a name in use, Update for a name that is not.  The
\* generated objects carry no resource version, so an Update never conflicts.
CreateAccepted(k, body) == store[k] = None /\ Valid(k, body)
UpdateAccepted(k, body) == store[k] # None /\ Valid(k, body)

\* Someone deletes a generated object behind the operator's back.
ObjectLost(k) ==
    /\ Spend("lose")
    /\ store[k] # None
    /\ store' = [store EXCEPT ![k] = None]
    /\ UNCHANGED <<cr, rev>>

UserNext ==
    \/ \E n \in Clusters :
          \/ \E spec \in Specs, foreign \in SUBSET ForeignFinalizers :
                UserCreates(n, spec, foreign)
          \/ \E spec \in Specs : UserEdits(n, spec)
          \/ UserDeletes(n)
          \/ ForeignRelease(n)
    \/ \E k \in Keys : ObjectLost(k)
=============================================================================
