--------------------------- MODULE MCReplication ---------------------------
(***************************************************************************)
(* Replication on small instances: a client, and one or two replicas.      *)
(***************************************************************************)
EXTENDS Replication

CONSTANTS c1, r1, r2

OneClient == {c1}
OneReplica == {r1}
TwoReplicas == {r1, r2}
OnlyC1 == {c1}
OnlyR1 == {r1}
Nobody == {}
SetAndIncr == {"set", "incr"}
=============================================================================
