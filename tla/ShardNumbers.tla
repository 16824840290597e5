---------------------------- MODULE ShardNumbers ----------------------------
(***************************************************************************)
(* The data behind one shard's mutex that Scheduler abstracts: the buffer  *)
(* and head of an ActiveRing, deficits and quanta as 64-bit integers, and  *)
(* the quantum of a tenant as set_tenant_quantum, clear_tenant_quantum and *)
(* set_quantum_provider change it while tasks come and go.  One priority   *)
(* level; a task is its cost, for dead entries only their number matters.  *)
(***************************************************************************)
EXTENDS Integers, Sequences, FiniteSets

CONSTANTS
  Tenants,
  CostsOf,     \* the costs of each tenant's tasks, u64
  Quanta,      \* arguments of set_tenant_quantum and values of providers, u64
  BaseQuantum, \* config.quantum
  Admins,      \* threads that configure quanta
  MaxI64,      \* i64::MAX
  Compact,     \* the head at which ActiveRing compacts, 64
  MaxQueue,    \* bound: queued tasks of each tenant
  MaxCalls     \* bound: configuring calls

VARIABLES
  ring,      \* active_rings[idx]: [buf, head]
  order,     \* history: the same ring as a queue
  queue,     \* queues[idx], the costs
  deficit,   \* deficits[idx]
  left,      \* ring_len less the visits made; 0 outside try_dequeue_from_shard
  quantum,   \* TenantState::quantum, 0 before there is a TenantState
  override,  \* tenant_quantum, 0 where there is none
  provider,  \* the value quantum_provider returns, 0 without one
  admin,     \* where each configuring call is
  calls,     \* history: configuring calls made
  solo,      \* history: no other call overlapped the calls under way
  clean,     \* history: the last call for this tenant ran alone
  tame,      \* history: every quantum the tenant had was in range
  credits    \* history: quanta paid since the tenant's last delivery

ringVars  == <<ring, order>>
workVars  == <<queue, deficit, left, credits>>
adminVars == <<override, provider, admin, calls, solo, clean>>
shardVars == <<ringVars, workVars, quantum, tame, adminVars>>

Word == 2 * (MaxI64 + 1)
U64  == 0 .. Word - 1
AsI64(u)  == IF u > MaxI64 THEN u - Word ELSE u
Unwrapped(a, b) == a + b      \* mutant
AddI64(a, b) == ((a + b + MaxI64 + 1) % Word) - (MaxI64 + 1)
Clamped(cost) == IF cost > MaxI64 THEN MaxI64 ELSE cost
AtLeastOne(q) == IF q = 0 THEN 1 ELSE q

ASSUME ShardNumbersAssumption ==
  /\ IsFiniteSet(Tenants) /\ IsFiniteSet(Admins)
  /\ {MaxI64, Compact, MaxCalls} \subseteq Nat /\ MaxQueue \in [Tenants -> Nat]
  /\ Quanta \subseteq U64 /\ BaseQuantum \in U64
  /\ CostsOf \in [Tenants -> (SUBSET U64) \ {{}}]

-----------------------------------------------------------------------------
(* ActiveRing. *)

NewRing == [buf |-> <<>>, head |-> 0]
RingLen(r) == Len(r.buf) - r.head
Contents(r) == SubSeq(r.buf, r.head + 1, Len(r.buf))
FrontOf(r) == r.buf[r.head + 1]

PushBack(r, t) ==
  IF r.head = Len(r.buf) THEN [buf |-> <<t>>, head |-> 0]
  ELSE [r EXCEPT !.buf = Append(@, t)]

KeepsLast(buf, n) == SubSeq(buf, n, Len(buf))   \* mutant: off by one
Drain(buf, n) == SubSeq(buf, n + 1, Len(buf))
NeverCompacts(r) == FALSE                       \* mutant
Compacts(r) == r.head > Compact /\ r.head * 2 >= Len(r.buf)
PopFront(r) ==
  LET popped == [r EXCEPT !.head = @ + 1]
  IN  IF Compacts(popped) THEN [buf |-> Drain(r.buf, popped.head), head |-> 0]
      ELSE IF popped.head = Len(r.buf) THEN NewRing
      ELSE popped

-----------------------------------------------------------------------------
(* Quantum configuration. *)

QuantumFor(t) ==
  IF override[t] # 0 THEN override[t]
  ELSE IF provider # 0 THEN provider ELSE AtLeastOne(BaseQuantum)

Idle == [at |-> "idle", tenant |-> 0, value |-> 0]
AllIdle == \A a \in Admins : admin[a].at = "idle"

\* A quantum no sum of deficit and quantum can overflow with.
Largest(t) == CHOOSE c \in {Clamped(k) : k \in CostsOf[t]} :
                \A k \in CostsOf[t] : Clamped(k) <= c
InRange(t, q) == 1 <= q /\ q <= MaxI64 - Largest(t) + 1

SetQuanta(q) ==
  /\ quantum' = q
  /\ tame' = [t \in Tenants |-> tame[t] /\ (q[t] = 0 \/ InRange(t, q[t]))]

Start(a, call) ==
  /\ admin[a] = Idle /\ admin' = [admin EXCEPT ![a] = call]
  /\ calls < MaxCalls /\ calls' = calls + 1
  /\ solo' = AllIdle
  /\ clean' = IF AllIdle THEN clean ELSE [t \in Tenants |-> FALSE]
  /\ UNCHANGED <<ringVars, workVars, quantum, tame>>
Goes(a, call) ==
  /\ admin' = [admin EXCEPT ![a] = call]
  /\ UNCHANGED <<ringVars, workVars, quantum, tame, override, provider, calls, solo, clean>>
Done(a, S) ==
  /\ admin' = [admin EXCEPT ![a] = Idle]
  /\ clean' = [t \in Tenants |-> IF t \in S THEN solo ELSE clean[t]]
  /\ UNCHANGED <<ringVars, workVars, override, provider, calls, solo>>

\* set_tenant_quantum (q) and clear_tenant_quantum (0).
SetOverride(a, t, q) ==
  /\ Start(a, [at |-> "map", tenant |-> t, value |-> 0])
  /\ override' = [override EXCEPT ![t] = q] /\ UNCHANGED provider

\* quantum_for reads the two maps one after the other, without the shard lock.
ReadMap(a) ==
  LET t == admin[a].tenant IN
  /\ admin[a].at = "map"
  /\ Goes(a, [admin[a] EXCEPT !.at = IF override[t] # 0 THEN "lock" ELSE "provider",
                              !.value = override[t]])
ReadProvider(a) ==
  /\ admin[a].at = "provider"
  /\ Goes(a, [admin[a] EXCEPT !.at = "lock",
                !.value = IF provider # 0 THEN provider ELSE AtLeastOne(BaseQuantum)])

Forgets(t, q) == quantum                  \* mutant: refresh does not store it
Refreshed(t, q) == IF quantum[t] = 0 THEN quantum
                   ELSE [quantum EXCEPT ![t] = AsI64(q)]
Refresh(a) ==
  /\ admin[a].at = "lock" /\ left = 0
  /\ SetQuanta(Refreshed(admin[a].tenant, admin[a].value))
  /\ Done(a, {admin[a].tenant})

SetProvider(a, q) ==
  /\ Start(a, [at |-> "all", tenant |-> 0, value |-> 0])
  /\ provider' = q /\ UNCHANGED override
RefreshAll(a) ==
  /\ admin[a].at = "all" /\ left = 0
  /\ SetQuanta([t \in Tenants |-> IF quantum[t] = 0 THEN 0 ELSE AsI64(QuantumFor(t))])
  /\ Done(a, Tenants)

-----------------------------------------------------------------------------
(* The shard, under its mutex. *)

ShardInit ==
  /\ ring = NewRing /\ order = <<>>
  /\ queue = [t \in Tenants |-> <<>>] /\ deficit = [t \in Tenants |-> 0]
  /\ left = 0 /\ credits = [t \in Tenants |-> 0]
  /\ quantum = [t \in Tenants |-> 0] /\ tame = [t \in Tenants |-> TRUE]
  /\ override = [t \in Tenants |-> 0] /\ provider = 0
  /\ admin = [a \in Admins |-> Idle] /\ calls = 0
  /\ solo = TRUE /\ clean = [t \in Tenants |-> TRUE]

\* A push, which makes the TenantState if there is none and lists the tenant.
Enqueue(t, cost) ==
  /\ left = 0 /\ Len(queue[t]) < MaxQueue[t]
  /\ queue' = [queue EXCEPT ![t] = Append(@, cost)]
  /\ IF \E i \in DOMAIN order : order[i] = t THEN UNCHANGED ringVars
     ELSE ring' = PushBack(ring, t) /\ order' = Append(order, t)
  /\ IF quantum[t] # 0 THEN UNCHANGED <<quantum, tame>>
     ELSE SetQuanta([quantum EXCEPT ![t] = AsI64(QuantumFor(t))])
  /\ UNCHANGED <<deficit, left, credits, adminVars>>

StartPass ==
  /\ left = 0 /\ RingLen(ring) > 0 /\ left' = RingLen(ring)
  /\ UNCHANGED <<ringVars, queue, deficit, credits, quantum, tame, adminVars>>

Relist(t) == /\ ring' = PushBack(PopFront(ring), t)
             /\ order' = Append(Tail(order), t)
Unlist == ring' = PopFront(ring) /\ order' = Tail(order)

OnCredit(t, cost) == deficit[t] > 0       \* mutant
Pays(t, cost) == deficit[t] >= cost

\* One turn of the loop: n dead entries at the front go, then the tenant is
\* unlisted, credited, or loses its front entry, delivered unless a cancel or
\* an expiry takes it in that moment.
Visit(t, n) ==
  LET q    == SubSeq(queue[t], n + 1, Len(queue[t]))
      cost == Clamped(Head(q))
  IN /\ left > 0 /\ FrontOf(ring) = t
     /\ \/ /\ q = <<>> /\ Unlist
           /\ queue' = [queue EXCEPT ![t] = q] /\ left' = left - 1
           /\ UNCHANGED <<deficit, credits>>
        \/ /\ q # <<>> /\ ~Pays(t, cost) /\ Relist(t)
           /\ queue' = [queue EXCEPT ![t] = q] /\ left' = left - 1
           /\ deficit' = [deficit EXCEPT ![t] = AddI64(@, quantum[t])]
           /\ credits' = [credits EXCEPT ![t] =
                            IF @ > Largest(t) THEN @ ELSE @ + 1]
        \/ /\ q # <<>> /\ Pays(t, cost)
           /\ queue' = [queue EXCEPT ![t] = Tail(q)]
           /\ IF Tail(q) = <<>> THEN Unlist ELSE Relist(t)
           /\ \/ /\ deficit' = [deficit EXCEPT ![t] = @ - cost] /\ left' = 0
                 /\ credits' = [credits EXCEPT ![t] = 0]
              \/ left' = left - 1 /\ UNCHANGED <<deficit, credits>>
     /\ UNCHANGED <<quantum, tame, adminVars>>

ShardNext ==
  \/ \E t \in Tenants : \E c \in CostsOf[t] : Enqueue(t, c)
  \/ StartPass
  \/ \E t \in Tenants : \E n \in 0 .. Len(queue[t]) : Visit(t, n)
  \/ \E a \in Admins :
       \/ ReadMap(a) \/ ReadProvider(a) \/ Refresh(a) \/ RefreshAll(a)
       \/ \E t \in Tenants : \E q \in {AtLeastOne(v) : v \in Quanta} \cup {0} :
            SetOverride(a, t, q)
       \/ \E q \in {AtLeastOne(v) : v \in Quanta} \cup {0} : SetProvider(a, q)

ShardSpec == ShardInit /\ [][ShardNext]_shardVars
=============================================================================
