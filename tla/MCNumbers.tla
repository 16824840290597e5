------------------------------ MODULE MCNumbers ------------------------------
(* Three small machines side by side, one of which moves: the shard's numbers, *)
(* the metrics with a reader, and the summary of tenants alone.                *)
EXTENDS ShardNumbersProps, MetricsProps, TLC

VARIABLE part

SomeCosts == (0 :> {2}) @@ (1 :> {6})
SomeLimits == (0 :> 2) @@ (1 :> 1)
SomeBounds == <<2, 5, 9>>
SomePast == {<<0, 0, 0>>, <<18, 1, 1>>, <<22, 0, 0>>}
Symm == Permutations(Admins) \cup Permutations(Keys)

MCInit ==
  /\ part \in {"shard", "metrics", "top"}
  /\ ShardInit /\ MetricsInit
  /\ part # "metrics" => TopInit /\ \A c \in Cells : cell[c] = 0
MCNext ==
  /\ part' = part
  /\ \/ part = "shard" /\ ShardNext /\ UNCHANGED metricsVars
     \/ part = "metrics" /\ MetricsNext /\ UNCHANGED shardVars
     \/ part = "top" /\ TopNext
        /\ UNCHANGED <<shardVars, cell, todo, readVars, recordings>>
MCSpec == MCInit /\ [][MCNext]_<<part, shardVars, metricsVars>>
=============================================================================
