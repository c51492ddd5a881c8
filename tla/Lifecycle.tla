----------------------------- MODULE Lifecycle -----------------------------
(***************************************************************************)
(* What the operator promises about the life of an environment, without    *)
(* caches, passes, retries or answers that are lost.                       *)
(*                                                                         *)
(* An environment is absent until its cluster is submitted.  It is guarded *)
(* by the finalizer before its first object is built.  Once its deletion   *)
(* has been requested it is closing: a pass that does not know about the   *)
(* request may still build.  When it is tearing nothing is built any more, *)
(* and it is released only when no object is left.  An object leaving      *)
(* waits for the finalizers of others.                                     *)
(***************************************************************************)
EXTENDS Naturals

CONSTANTS Clusters,   \* the names of the clusters
          Objects,    \* the objects an environment may consist of
          Lossy       \* others than the operator delete objects, too

VARIABLES phase,      \* phase[n]: where the environment n is in its life
          kids        \* kids[n]: its objects that exist

vars == <<phase, kids>>

Phases == {"absent", "open", "guarded", "closing", "tearing", "leaving"}

TypeOK == /\ phase \in [Clusters -> Phases]
          /\ kids \in [Clusters -> SUBSET Objects]

Init == /\ phase = [n \in Clusters |-> "absent"]
        /\ kids = [n \in Clusters |-> {}]

Move(n, from, to) == /\ phase[n] \in from
                     /\ \E p \in to : phase' = [phase EXCEPT ![n] = p]

Submit(n)   == Move(n, {"absent"}, {"open"}) /\ UNCHANGED kids
Guard(n)    == Move(n, {"open"}, {"guarded"}) /\ UNCHANGED kids
Withdraw(n) == Move(n, {"open"}, {"absent", "leaving"}) /\ UNCHANGED kids
Close(n)    == Move(n, {"guarded"}, {"closing"}) /\ UNCHANGED kids
Expire(n)   == Move(n, {"leaving"}, {"absent"}) /\ UNCHANGED kids

\* The operator takes notice of the deletions of the clusters in S.
Settle(S) == /\ \A n \in S : phase[n] = "closing"
             /\ phase' = [n \in Clusters |-> IF n \in S THEN "tearing" ELSE phase[n]]
             /\ UNCHANGED kids

\* The last object of a pass may be built in the step that ends the pass, and
\* with it the time in which objects are built.
Build(n, k) == /\ \/ phase[n] \in {"guarded", "closing"} /\ UNCHANGED phase
                  \/ Move(n, {"closing"}, {"tearing"})
               /\ kids' = [kids EXCEPT ![n] = @ \cup {k}]

Tear(n, k) == /\ phase[n] = "tearing"
              /\ kids' = [kids EXCEPT ![n] = @ \ {k}]
              /\ UNCHANGED phase

Release(n) == /\ kids[n] = {}
              /\ Move(n, {"tearing"}, {"absent", "leaving"})
              /\ UNCHANGED kids

\* Someone else deletes an object.
Lose(n, k) == /\ Lossy
              /\ kids' = [kids EXCEPT ![n] = @ \ {k}]
              /\ UNCHANGED phase

Next == \/ \E n \in Clusters :
              \/ Submit(n) \/ Guard(n) \/ Withdraw(n) \/ Close(n) \/ Expire(n) \/ Release(n)
              \/ \E k \in Objects : Build(n, k) \/ Tear(n, k) \/ Lose(n, k)
        \/ \E S \in SUBSET Clusters : Settle(S)

Spec == Init /\ [][Next]_vars

\* Nothing of an environment exists outside the care of the finalizer.
NoOrphans == \A n \in Clusters :
                kids[n] # {} => phase[n] \in {"guarded", "closing", "tearing"}
=============================================================================
