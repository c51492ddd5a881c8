------------------------------- MODULE Render -------------------------------
(***************************************************************************)
(* Package apps: the templates that turn the spec of an AxonOpsCassandra   *)
(* object into the objects of its environment.  A generator is a pure      *)
(* function; its value is the part of the object the properties look at:   *)
(*                                                                         *)
(*   hosts           the Services named by the environment of the          *)
(*                   container                                             *)
(*   replicas, size  replica count, size of the volume claim (<<>>: none)  *)
(*   request, limit  container resources, one number for CPU and memory    *)
(*   rules           the hosts an Ingress has a rule for                   *)
(*   localDC         the data centre the AxonOps server asks for           *)
(*   text            the scalars the template interpolates without quotes  *)
(*                                                                         *)
(* Texts are sequences of segments, as in Names; <<>> is the empty text.   *)
(* One label value stands for a map of labels and annotations.  Images,    *)
(* ports, probes, heap sizes and quoted environment variables do not       *)
(* appear: no property tells them apart.                                   *)
(***************************************************************************)
EXTENDS Names, Integers

CONSTANT NonStrings   \* texts a YAML decoder does not read as a string ("2024", "true")

\* The sections of the spec, with the fields the templates use.
AxonOpsCassandraCluster ==
    [ replicas : Int, clusterName : Seq(STRING), dc : Seq(STRING), size : Seq(STRING),
      labels : Seq(STRING), request : Nat, limit : Nat ]
Elasticsearch ==
    [ clusterName : Seq(STRING), size : Seq(STRING), request : Nat, limit : Nat ]
AxonOpsDashboard ==
    [ ingress : BOOLEAN, hosts : SUBSET Seq(STRING), ingressLabels : Seq(STRING),
      replicas : Int, labels : Seq(STRING), request : Nat, limit : Nat ]
AxonOpsServer ==
    [ metricsEnabled : BOOLEAN, metricsCluster : AxonOpsCassandraCluster,
      labels : Seq(STRING), request : Nat, limit : Nat ]
AxonOpsCassandraSpec ==
    [ cassandra : AxonOpsCassandraCluster, server : AxonOpsServer,
      elastic : Elasticsearch, dashboard : AxonOpsDashboard ]

ValueOrDefault(value, default) == IF value = <<>> THEN default ELSE value

ValueOrDefaultInt(value, default) == IF value <= 0 THEN default ELSE value

\* ValueOrDefault(q.String(), default) of a quantity.  An absent quantity is the
\* zero quantity, which prints as "0" and never as the empty text, so that the
\* default is unreachable.
QuantityOrDefault(q, default) == q

GenerateElasticsearchConfig(n, spec) ==
    [ hosts    |-> {},
      replicas |-> 1,
      size     |-> spec.elastic.size,
      request  |-> QuantityOrDefault(spec.elastic.request, 500),
      limit    |-> QuantityOrDefault(spec.elastic.limit, 1000),
      text     |-> [ clusterName |-> ValueOrDefault(spec.elastic.clusterName, n),
                     labels      |-> spec.server.labels ] ]

GenerateElasticsearchServiceConfig(n, spec) ==
    [ text |-> [labels |-> spec.server.labels] ]

GenerateDashboardConfig(n, spec) ==
    [ hosts    |-> {As(n)},
      replicas |-> 1,
      request  |-> QuantityOrDefault(spec.dashboard.request, 500),
      limit    |-> QuantityOrDefault(spec.dashboard.limit, 1000),
      text     |-> [labels |-> spec.dashboard.labels] ]

GenerateDashboardServiceConfig(n, spec) ==
    [ text |-> [labels |-> spec.dashboard.labels] ]

GenerateDashboardIngressConfig(n, spec) ==
    [ rules |-> spec.dashboard.hosts,
      text  |-> [labels |-> spec.dashboard.ingressLabels] ]

GenerateServerConfig(n, spec) ==
    [ hosts    |-> {Es(n)} \cup
                   (IF spec.server.metricsEnabled THEN {Ca(Metrics(n))} ELSE {}),
      replicas |-> 1,
      size     |-> <<>>,
      localDC  |-> IF spec.server.metricsEnabled THEN <<"axonops1">> ELSE <<>>,
      request  |-> QuantityOrDefault(spec.server.request, 250),
      limit    |-> QuantityOrDefault(spec.server.limit, 1000),
      text     |-> [labels |-> spec.server.labels] ]

GenerateServerServiceConfig(n, spec) ==
    [ text |-> [labels |-> spec.server.labels] ]

\* name is the cluster's name, or Metrics of it; cluster is the section of the
\* spec; size is passed apart from it, as in the code.
GenerateCassandraConfig(name, size, cluster) ==
    [ hosts    |-> {As(name)},
      replicas |-> ValueOrDefaultInt(cluster.replicas, 1),
      size     |-> size,
      request  |-> QuantityOrDefault(cluster.request, 500),
      limit    |-> QuantityOrDefault(cluster.limit, 1000),
      text     |-> [ clusterName |-> ValueOrDefault(cluster.clusterName, name),
                     dc          |-> ValueOrDefault(cluster.dc, <<"dc1">>),
                     labels      |-> cluster.labels ] ]

GenerateCassandraServiceConfig(name, labels) ==
    [ text |-> [labels |-> labels] ]

\* The rendered YAML converts to the typed object: every unquoted scalar must be
\* read as a string, or the conversion fails and the generator returns an error.
Converts(body) == \A field \in DOMAIN body.text : body.text[field] \notin NonStrings
=============================================================================
