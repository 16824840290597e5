-------------------------- MODULE ShardNumbersProps --------------------------
(* What ActiveRing, the deficits and the quantum configuration promise. *)
EXTENDS ShardNumbers

\* Every variable has its type: deficits and quanta fit an i64.
ShardTypeInv ==
  /\ ring \in [buf : Seq(Tenants), head : Nat] /\ ring.head <= Len(ring.buf)
  /\ order \in Seq(Tenants) /\ queue \in [Tenants -> Seq(U64)]
  /\ left \in Nat /\ left <= Len(order)
  /\ credits \in [Tenants -> Nat] /\ tame \in [Tenants -> BOOLEAN]
  /\ deficit \in [Tenants -> -MaxI64 - 1 .. MaxI64]
  /\ quantum \in [Tenants -> -MaxI64 - 1 .. MaxI64]
  /\ override \in [Tenants -> U64] /\ provider \in U64
  /\ admin \in [Admins -> [at : {"idle", "map", "provider", "lock", "all"},
                           tenant : Tenants \cup {0}, value : U64]]
  /\ solo \in BOOLEAN /\ clean \in [Tenants -> BOOLEAN]

\* ActiveRing is a queue: whatever was pushed and popped, the items from head on
\* are the ones a plain queue would hold, and the dead prefix stays shorter than
\* the live part or the compaction threshold (state.rs 46-68).
RingIsQueue ==
  /\ Contents(ring) = order
  /\ ring.head <= Compact \/ ring.head < Len(order)

\* A tenant whose quanta stayed in range never sees its deficit wrap below zero,
\* and is served after at most as many credits as its dearest task costs.  Out of
\* range, a quantum cast to a negative number or a sum past i64::MAX would starve
\* it (scheduler.rs 388, 586-597, 892).
ServedInTime ==
  \A t \in Tenants : tame[t] => deficit[t] >= 0 /\ credits[t] <= Largest(t)

\* A configuring call that no other overlapped takes effect: when the calls are
\* over, the quantum in force is the one quantum_for returns, also for a tenant
\* first seen during the call.  Overlapping calls may leave the older value, for
\* the quantum is read before the shard is locked (scheduler.rs 377-422, 892).
QuantumInForce ==
  AllIdle => \A t \in Tenants :
               clean[t] /\ quantum[t] # 0 => quantum[t] = AsI64(QuantumFor(t))

-----------------------------------------------------------------------------
(* What makes these inductive. *)

\* A listed tenant has a quantum; while it stays in range its deficit grows by
\* one at least with every credit, and no task of it costs more than Largest.
CreditsPaid ==
  /\ \A t \in Tenants : \A i \in DOMAIN queue[t] : queue[t][i] \in CostsOf[t]
  /\ \A i \in DOMAIN order : quantum[order[i]] # 0
  /\ \A t \in Tenants : tame[t] =>
       /\ quantum[t] = 0 \/ InRange(t, quantum[t])
       /\ credits[t] <= deficit[t] /\ credits[t] <= Largest(t)

\* A call that runs alone has read the quantum in force for its tenant, and only
\* the tenants it is for may still have another; overlap cleans nobody.
Covers(a, t) == admin[a].at # "idle" /\ (admin[a].at # "all" => admin[a].tenant = t)
CallsTold ==
  /\ \A a \in Admins :
       /\ admin[a].at \in {"map", "provider", "lock"} => admin[a].tenant \in Tenants
       /\ admin[a].at = "lock" => admin[a].value # 0
  /\ ~solo => \A t \in Tenants : ~clean[t]
  /\ solo =>
       /\ \A a, b \in Admins : admin[a].at # "idle" /\ admin[b].at # "idle" => a = b
       /\ \A a \in Admins :
            /\ admin[a].at = "provider" => override[admin[a].tenant] = 0
            /\ admin[a].at = "lock" => admin[a].value = QuantumFor(admin[a].tenant)
  /\ \A t \in Tenants : clean[t] /\ quantum[t] # 0 /\ (\A a \in Admins : ~Covers(a, t)) =>
       quantum[t] = AsI64(QuantumFor(t))

ShardInv == ShardTypeInv /\ RingIsQueue /\ CreditsPaid /\ CallsTold
=============================================================================
