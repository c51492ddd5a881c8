------------------------------- MODULE Names -------------------------------
(***************************************************************************)
(* How the operator names the Kubernetes objects it creates for one        *)
(* AxonOpsCassandra object.                                                *)
(*                                                                         *)
(* A name is the sequence of its '-'-separated segments: "ca-mt-dev" is    *)
(* <<"ca", "mt", "dev">>.  Splitting at '-' is a bijection, and gluing two *)
(* names with a '-' between them is \o, so two different expressions of    *)
(* the code denote the same object exactly when their sequences are equal. *)
(* Every object of the model lives in one namespace: the code always puts  *)
(* the children into the namespace of their AxonOpsCassandra object.       *)
(***************************************************************************)
EXTENDS Sequences

CONSTANT Clusters   \* the names an AxonOpsCassandra object may have

ASSUME ClustersAssumption == Clusters \subseteq Seq(STRING) \ {<<>>}

\* The segments the code puts in front of a name.  They are texts, which TLC can
\* evaluate and the provers have to be told.
Prefixes == {"es", "ds", "as", "ca", "mt", "metrics"}

ASSUME PrefixesAssumption == Prefixes \subseteq STRING

\* Mutant of Ds: the dashboards of all clusters share a name.
DsShared(name) == <<"ds">>

Es(name) == <<"es">> \o name
Ds(name) == <<"ds">> \o name
As(name) == <<"as">> \o name
Ca(name) == <<"ca">> \o name

\* The name under which the metrics cluster is generated: its StatefulSet and
\* its Service are Ca(Metrics(n)).
Metrics(name) == <<"metrics">> \o name

\* The name under which the metrics cluster is looked up and deleted.
CaMt(name) == <<"ca", "mt">> \o name

Kinds == {"StatefulSet", "Service", "Deployment", "Ingress"}

Sts(name) == [kind |-> "StatefulSet", name |-> name]
Svc(name) == [kind |-> "Service",     name |-> name]
Dep(name) == [kind |-> "Deployment",  name |-> name]
Ing(name) == [kind |-> "Ingress",     name |-> name]

\* The objects the operator both creates and deletes for cluster n.
Kids(n) == { Sts(Es(n)), Svc(Es(n)), Dep(Ds(n)), Svc(Ds(n)), Ing(Ds(n)),
             Sts(As(n)), Svc(As(n)), Sts(Ca(n)), Svc(Ca(n)) }

\* The objects of the metrics cluster of n, as they are created.
MetricsKids(n) == { Sts(Ca(Metrics(n))), Svc(Ca(Metrics(n))) }

\* Every object name the code can mention while it reconciles a cluster.
Keys == UNION { Kids(n) \cup MetricsKids(n) \cup {Sts(CaMt(n)), Svc(CaMt(n))} :
                n \in Clusters }

\* No cluster is called as another one's metrics cluster is, or as the object
\* the metrics cluster is looked up by: the case in which names are unambiguous.
NamesUnambiguous ==
    \A n, m \in Clusters : n # Metrics(m) /\ n # <<"mt">> \o m
=============================================================================
