----------------------------- MODULE TopTenants -----------------------------
(***************************************************************************)
(* The heavy-hitter summary behind Scheduler::top_tenants (state.rs): at   *)
(* most Capacity tenants with a count each; a newcomer takes the place and *)
(* the count of the entry with the least count.                            *)
(***************************************************************************)
EXTENDS Integers, Sequences, FiniteSets

CONSTANTS
  Keys,      \* tenants
  Capacity,  \* top_tenants_capacity
  MaxU64,    \* the largest u64
  MaxServed  \* bound: deliveries recorded

VARIABLES
  top,    \* TopTenants::entries
  served  \* history: the deliveries of each tenant

topVars == <<top, served>>

ASSUME TopTenantsAssumption ==
  IsFiniteSet(Keys) /\ {Capacity, MaxU64, MaxServed} \subseteq Nat /\ MaxU64 > 0

Unbounded(a, d) == a + d                      \* mutant
Wrapping(a, d)  == (a + d) % (MaxU64 + 1)     \* mutant
SaturatingAdd(a, d) == IF a + d > MaxU64 THEN MaxU64 ELSE a + d

FirstEntry(e) == 1                           \* mutant
\* The first entry with the least count.
MinIndex(e) ==
  CHOOSE i \in DOMAIN e : \A j \in DOMAIN e :
    e[i].count < e[j].count \/ (e[i].count = e[j].count /\ i <= j)
Anew(e) == 1                                 \* mutant
Inherited(e) == SaturatingAdd(e[MinIndex(e)].count, 1)

Recorded(e, k) ==
  IF Capacity = 0 THEN e
  ELSE IF \E i \in DOMAIN e : e[i].tenant = k
  THEN [i \in DOMAIN e |-> IF e[i].tenant = k
          THEN [e[i] EXCEPT !.count = SaturatingAdd(@, 1)] ELSE e[i]]
  ELSE IF Len(e) < Capacity THEN Append(e, [tenant |-> k, count |-> 1])
  ELSE [e EXCEPT ![MinIndex(e)] = [tenant |-> k, count |-> Inherited(e)]]

\* Dearest first, stable.
Sorted(e) ==
  LET p == CHOOSE p \in [DOMAIN e -> DOMAIN e] : \A i, j \in DOMAIN e : i < j =>
             \/ e[p[i]].count > e[p[j]].count
             \/ e[p[i]].count = e[p[j]].count /\ p[i] < p[j]
  IN  [i \in DOMAIN e |-> e[p[i]]]

TopInit == top = <<>> /\ served = [k \in Keys |-> 0]

Record(k) == /\ top' = Recorded(top, k)
             /\ served' = [served EXCEPT ![k] = @ + 1]

TopNext == \E k \in Keys : served[k] < MaxServed /\ Record(k)
=============================================================================
