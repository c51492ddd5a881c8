----------------------------- MODULE MCOperator -----------------------------
(***************************************************************************)
(* Instances of Operator for TLC: names, specs taken from the README and   *)
(* from config/samples, and budgets of disturbances.                       *)
(***************************************************************************)
EXTENDS Calm, TLC

dev  == <<"dev">>
prod == <<"prod">>

OneCluster == {dev}
TwoClusters == {dev, prod}

\* "2024" is a number to a YAML decoder.
Numbers == {<<"2024">>}

NoForeign == {}
Foreign   == {"foregroundDeletion"}

EmptyCassandra ==
    [ replicas |-> 0, clusterName |-> <<>>, dc |-> <<>>, size |-> <<>>,
      labels |-> <<>>, request |-> 0, limit |-> 0 ]

\* README: the simplest configuration, an empty spec.
Minimal ==
    [ cassandra |-> EmptyCassandra,
      server    |-> [ metricsEnabled |-> FALSE, metricsCluster |-> EmptyCassandra,
                      labels |-> <<>>, request |-> 0, limit |-> 0 ],
      elastic   |-> [ clusterName |-> <<>>, size |-> <<>>, request |-> 0, limit |-> 0 ],
      dashboard |-> [ ingress |-> FALSE, hosts |-> {}, ingressLabels |-> <<>>,
                      replicas |-> 0, labels |-> <<>>, request |-> 0, limit |-> 0 ] ]

\* README: three replicas under another cluster name.
Scaled == [Minimal EXCEPT !.cassandra.replicas = 3,
                          !.cassandra.clusterName = <<"my", "dev", "env">>]

\* README: the same with persistent volumes.
Persistent == [Scaled EXCEPT !.cassandra.size = <<"2Gi">>, !.elastic.size = <<"2Gi">>]

\* config/samples/cassandra.ingress.yaml
WithIngress == [Minimal EXCEPT !.dashboard.ingress = TRUE,
                               !.dashboard.hosts = {<<"axonops", "dev.localhost">>},
                               !.dashboard.ingressLabels = <<"world">>,
                               !.dashboard.request = 100, !.dashboard.limit = 500]

ScaledIngress == [WithIngress EXCEPT !.cassandra.replicas = 3]

\* config/samples/cassandra-metrics.yaml, without the volume of Elasticsearch.
WithMetrics ==
    [Minimal EXCEPT !.cassandra.clusterName = <<"my", "dev", "env">>,
                    !.server.metricsEnabled = TRUE,
                    !.server.metricsCluster.replicas = 2,
                    !.server.metricsCluster.dc = <<"axonops2">>]

\* Specs that never become an environment: an Elasticsearch cluster name that is a
\* number to YAML, a label that is one, a container that requests more than the limit
\* the template renders.
Numeric    == [Minimal EXCEPT !.elastic.clusterName = <<"2024">>]
Unrendered == [Minimal EXCEPT !.server.labels = <<"2024">>]
Refused    == [Minimal EXCEPT !.dashboard.request = 500]

Budgeted(creates, edits, deletes, losses, faults, restarts) ==
    [ d \in Disturbances |->
        CASE d = "create" -> creates [] d = "edit" -> edits   [] d = "delete"  -> deletes
          [] d = "lose"   -> losses  [] d = "fault" -> faults [] d = "restart" -> restarts ]

OnlyMinimal    == {Minimal}
EditedSpecs    == {WithMetrics, ScaledIngress}
OnlyMetrics    == {WithMetrics}
RefusedSpecs   == {Refused, Numeric}
NumericSpecs   == {Numeric, Unrendered}
MixedSpecs     == {Minimal, Numeric}
SettledSpecs   == {Scaled, Persistent}

RecreateBudget  == Budgeted(2, 0, 1, 0, 1, 1)
EditsBudget     == Budgeted(2, 1, 1, 0, 0, 0)
StarveBudget    == Budgeted(2, 0, 0, 0, 0, 0)
SettleBudget    == Budgeted(1, 2, 0, 0, 1, 0)
EditOnceBudget  == Budgeted(1, 0, 0, 0, 1, 0)
DriftBudget     == Budgeted(1, 0, 0, 1, 0, 0)
TwiceBudget     == Budgeted(2, 0, 1, 0, 0, 0)
TakeoverBudget  == Budgeted(1, 0, 1, 1, 1, 1)
OverlapBudget   == Budgeted(1, 1, 1, 0, 0, 1)
RolloverBudget  == Budgeted(1, 0, 1, 0, 0, 1)
NamespaceBudget == Budgeted(1, 1, 1, 0, 0, 2)
RemovalBudget   == Budgeted(1, 0, 1, 0, 0, 0)
=============================================================================
