--------------------------- MODULE SchedulerPasses ---------------------------
(***************************************************************************)
(* Scheduler with a history: the deficits that a consumer's pass over a    *)
(* shard began with, and what they say about the order of priorities.      *)
(***************************************************************************)
EXTENDS SchedulerProps

VARIABLE before   \* the deficits a consumer found when it locked its shard

passVars == <<vars, before>>
NoDeficits == [t \in Tenants |-> [i \in Prios |-> 0]]

\* A pass goes from the lock of the shard to a delivery or the end of its rings.
InPass(c) == pc[c] \in {"scan", "commit"} \/ Weighing(c)

PassInit == Init /\ before = [c \in Consumers |-> NoDeficits]
PassNext ==
  /\ Next
  /\ before' = [c \in Consumers |-> IF ~InPass(c)' THEN NoDeficits
                                    ELSE IF pc[c] = "grab" THEN deficit
                                    ELSE before[c]]
PassSpec == PassInit /\ [][PassNext]_passVars

\* Priority is strict among the tenants that can pay: no task is handed out past a
\* queued one of a higher priority in its shard that its tenant could pay for when
\* the pass began (scheduler.rs 537-635).  Left out are a front that died since,
\* and one behind a cancelled task: a cancel between the look at the front and the
\* pop spends the tenant's turn (608-619).  The exemption is broader than that
\* window: a tenant and priority are exempt behind any earlier cancelled task of
\* theirs, however long ago it left the queue.
CancelledAhead(y) ==
  \E x \in Ids : /\ x < y /\ fate[x] = "cancelled"
                 /\ task[x].tenant = task[y].tenant /\ task[x].prio = task[y].prio
PassedOver(c, t, i) ==
  queue[t][i] # {} =>
    LET y == Front(queue[t][i])
    IN  \/ before[c][t][i] < task[y].cost
        \/ y \notin pending \/ y \in late \/ CancelledAhead(y)
PayersFirst ==
  \A c \in Consumers : pc[c] = "commit" /\ loc[c].item \in pending =>
    \A t \in Tenants, i \in Prios :
      ShardOf(t) = loc[c].shard /\ i < loc[c].level => PassedOver(c, t, i)

-----------------------------------------------------------------------------
(* What makes it inductive. *)

\* A task in a queue, or popped from it, that is not live was cancelled.
PoppedTasks == {loc[c].item : c \in {d \in Consumers : pc[d] = "commit"}}
Held == Entries \cup PoppedTasks
EntriesKnown ==
  \A x \in Held : x \in pending \/ fate[x] = "cancelled"

\* Deficits only grow in a pass, and each tenant it has been past, in the levels
\* above or at the front part of the ring it turns, could not pay.
ToVisit(c) == IF Weighing(c) THEN loc[c].visits + 1 ELSE loc[c].visits
Ahead(c, t, i) ==
  /\ i = loc[c].level
  /\ \E k \in 1 .. ToVisit(c) : ring[loc[c].shard][i][k] = t
Popped(c, t, i) ==
  /\ pc[c] = "commit" /\ i = loc[c].level /\ t = task[loc[c].item].tenant
PassTrue(c) ==
  \A t \in Tenants, i \in Prios : ShardOf(t) = loc[c].shard =>
    /\ before[c][t][i] <= deficit[t][i]
    /\ i <= loc[c].level /\ ~Ahead(c, t, i) /\ ~Popped(c, t, i) => PassedOver(c, t, i)
PassInv ==
  /\ before \in [Consumers -> [Tenants -> [Prios -> Int]]]
  /\ EntriesKnown
  /\ \A c \in Consumers : InPass(c) => PassTrue(c)
=============================================================================
