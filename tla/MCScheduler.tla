----------------------------- MODULE MCScheduler -----------------------------
(* Instances of Scheduler for TLC. *)
EXTENDS SchedulerProps, TLC

Req(t, prio, cost, dl) ==
  [tenant |-> t, prio |-> prio, cost |-> cost, deadline |-> dl]

\* The consumers of a run: all block, or all poll with a timeout.
AllBlocking == [c \in Consumers |-> "blocking"]
AllTimed    == [c \in Consumers |-> "timed"]
AllTry      == [c \in Consumers |-> "try"]

QuantumOne  == [t \in Tenants |-> 1]

\* Two tenants of one shard: one whose producers wait, one that is refused.
WaitOrRefuse == (0 :> "timeout") @@ (1 :> "reject")
WaitOrRefuseRequests == {Req(0, 0, 2, FALSE), Req(1, 2, 1, FALSE)}
Symmetry == Permutations(Producers) \cup Permutations(Consumers)

\* Two tenants of one shard that drop their oldest and their newest task.
DropBoth == (0 :> "oldest") @@ (1 :> "newest")
DropBothRequests ==
  {Req(0, 0, 1, FALSE), Req(0, 2, 1, FALSE), Req(1, 2, 1, TRUE)}

RejectAll   == [t \in Tenants |-> "reject"]
\* Two tenants on two shards.
TwoShardRequests == {Req(0, 0, 2, FALSE), Req(1, 1, 1, TRUE)}
\* One tenant whose tasks cost two rounds of quantum.
OneTenantRequests == {Req(0, 1, 2, FALSE)}
\* Two tenants of one shard at two priorities.
TwoPriorityRequests == {Req(0, 0, 2, FALSE), Req(1, 2, 1, FALSE)}
\* One tenant whose tasks cost one quantum.
CheapRequests == {Req(0, 0, 1, FALSE)}
\* One tenant whose tasks can expire.
ExpiringRequests == {Req(0, 0, 1, TRUE)}
=============================================================================
