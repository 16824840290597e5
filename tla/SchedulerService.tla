-------------------------- MODULE SchedulerService --------------------------
(***************************************************************************)
(* How Scheduler serves its tenants, for any number of threads, tenants,   *)
(* shards and tasks: what a tenant may bank, and that whatever can be run  *)
(* is in reach of the consumers.                                           *)
(***************************************************************************)
EXTENDS SchedulerLedger

\* A finite set of naturals that is not empty has a greatest element.
LEMMA GreatestElement ==
  ASSUME NEW S \in SUBSET Nat, IsFiniteSet(S), S # {}
  PROVE  \E m \in S : \A n \in S : n <= m
  <1> DEFINE above(x) == {y \in S : x < y}
             counts == {Cardinality(above(x)) : x \in S}
  <1>1. \A x \in S : IsFiniteSet(above(x)) /\ Cardinality(above(x)) \in Nat
    BY FS_Subset, FS_CardinalityType
  <1>2. counts \in SUBSET Nat /\ counts # {}
    BY <1>1
  <1>3. PICK m \in S : \A x \in S : Cardinality(above(m)) <= Cardinality(above(x))
    <2>1. PICK c \in counts : \A d \in counts : c <= d
      BY <1>2, LeastElement
    <2> HIDE DEF above
    <2> QED
      BY <2>1
  <1>4. SUFFICES ASSUME NEW n \in S, m < n
                 PROVE  FALSE
    BY <1>3
  <1>5. above(n) \in SUBSET above(m) /\ n \in above(m) /\ n \notin above(n)
    <2>1. \A y \in S : n < y => m < y
      BY <1>4
    <2>2. n \in above(m) /\ n \notin above(n)
      BY <1>4
    <2> QED
      BY <2>1, <2>2
  <1> HIDE DEF above
  <1>6. Cardinality(above(n)) < Cardinality(above(m))
    BY <1>1, <1>5, FS_Subset
  <1> QED
    BY <1>1, <1>3, <1>6

\* No request costs more than MaxCost.
LEMMA CostBounded ==
  MaxCost \in Nat /\ \A r \in Requests : r.cost <= MaxCost
  <1> DEFINE cs == {r.cost : r \in Requests}
             f == [r \in Requests |-> r.cost]
  <1>1. cs \in SUBSET Nat /\ cs # {}
    BY RequestType, SchedulerAssumption
  <1>2. f \in Surjection(Requests, cs)
    BY DEF Surjection
  <1>3. IsFiniteSet(cs)
    BY <1>2, FS_Surjection, RequestsAssumption
  <1>4. \E m \in cs : \A n \in cs : n <= m
    BY <1>1, <1>3, GreatestElement
  <1>5. MaxCost \in cs /\ \A n \in cs : n <= MaxCost
    BY <1>4 DEF MaxCost
  <1> QED
    BY <1>1, <1>5

\* The steps that neither weigh a tenant nor hand out a task.
Serves(p) ==
  \/ p \in Producers /\ (Enqueue(p) \/ ProducerStep(p))
  \/ p \in Consumers /\ (Polls(p) \/ Visit(p))
  \/ p \in Cancellers /\ (CancelTake(p) \/ CancelMark(p))
  \/ p \in Closers /\ Close(p)
  \/ p \in Procs /\ (Release(p) \/ NotifyAll(p))

\* They leave the deficits alone and pop no task.
LEMMA ServesMoves ==
  ASSUME Grounds, NEW p, Serves(p)
  PROVE  /\ p \in Procs /\ \E l \in Labels \ {"commit"} : \E v : Moves(p, l, v)
         /\ deficit' = deficit /\ \A x \in DOMAIN task : task'[x] = task[x]
  <1> USE DEF Grounds
  <1>1. p \in Procs /\ TypeOK /\ task \in Seq(Requests)
    BY DEF Serves, Procs, TypeInv, TypeOK, SharedOK
  <1>2. CASE p \in Producers /\ (Enqueue(p) \/ RetryEnqueue(p))
    <2>1. \E l \in Labels \ {"commit"} : \E v : Moves(p, l, v)
      BY <1>2, Zenon DEF Enqueue, RetryEnqueue, BeginAttempt, Return, Goto, Moves, Labels
    <2> QED
      BY <1>1, <1>2, <2>1
         DEF Enqueue, RetryEnqueue, BeginAttempt, Return, drrVars, entryVars
  <1>3. CASE p \in Producers /\ LockForEnqueue(p)
    <2>1. \E l \in {"idle", "admit", "release"} : pc' = [pc EXCEPT ![p] = l]
      BY <1>3 DEF LockForEnqueue, Return, Goto
    <2>2. \E v : loc' = [loc EXCEPT ![p] = v]
      BY <1>3, Zenon DEF LockForEnqueue, Return
    <2>3. \E l \in Labels \ {"commit"} : \E v : Moves(p, l, v)
      BY <2>1, <2>2 DEF Moves, Labels
    <2> QED
      BY <1>1, <1>3, <2>3 DEF LockForEnqueue
  <1>4. CASE p \in Producers /\ Admit(p)
    <2>1. (\E l \in {"idle", "wait"} : \E v : Moves(p, l, v)) \/ Moves(p, "reserve", loc[p])
      BY <1>1, <1>4, Stay, RefuseMoves DEF Admit
    <2>2. \E l \in Labels \ {"commit"} : \E v : Moves(p, l, v)
      BY <2>1 DEF Labels
    <2> QED
      BY <1>1, <1>4, <2>2 DEF Admit, drrVars, entryVars
  <1>5. CASE p \in Producers /\ AdmitByDropping(p)
    <2>1. \E l \in Labels \ {"commit"} : \E v : Moves(p, l, v)
      BY <1>5, DropEffect DEF Labels
    <2> QED
      BY <1>1, <1>5, <2>1 DEF AdmitByDropping, drrVars
  <1>6. CASE p \in Producers /\ Reserve(p)
    <2>1. \/ Refuse(p)
          \/ Goto(p, "push") /\ UNCHANGED loc
          \/ Goto(p, "release") /\ \E v : loc' = [loc EXCEPT ![p] = v]
      BY <1>6, Zenon DEF Reserve
    <2>2. \E l \in Labels \ {"commit"} : \E v : Moves(p, l, v)
      <3>1. CASE Refuse(p)
        BY <1>1, <3>1, RefuseMoves DEF Labels
      <3>2. CASE Goto(p, "push") /\ UNCHANGED loc
        <4>1. Moves(p, "push", loc[p])
          BY <1>1, <3>2, Stay
        <4> QED
          BY <4>1 DEF Labels
      <3>3. CASE Goto(p, "release") /\ \E v : loc' = [loc EXCEPT ![p] = v]
        <4>1. \E v : Moves(p, "release", v)
          BY <3>3 DEF Goto, Moves
        <4> QED
          BY <4>1 DEF Labels
      <3> QED
        BY <2>1, <3>1, <3>2, <3>3
    <2> QED
      BY <1>1, <1>6, <2>2 DEF Reserve
  <1>7. CASE p \in Producers /\ Push(p)
    <2>1. \E l \in Labels \ {"commit"} : \E v : Moves(p, l, v)
      BY <1>7, PushEffect DEF Labels
    <2>2. \A x \in DOMAIN task : task'[x] = task[x]
      BY <1>7, PushEffect
    <2> QED
      BY <1>1, <1>7, <2>1, <2>2 DEF Push
  <1>8. CASE p \in Producers /\ (Activate(p) \/ Publish(p))
    <2>1. \E l \in {"publish", "notify", "idle"} : \E v : Moves(p, l, v)
      BY <1>1, <1>8, Stay DEF Activate, Publish, AfterActivation
    <2>2. \E l \in Labels \ {"commit"} : \E v : Moves(p, l, v)
      BY <2>1 DEF Labels
    <2> QED
      BY <1>1, <1>8, <2>2 DEF Activate, Publish, drrVars, entryVars
  <1>9. CASE p \in Consumers /\ Polls(p)
    <2>1. \E l \in Labels \ {"commit"} : \E v : Moves(p, l, v)
      BY <1>1, <1>9, PollMoves
    <2> QED
      BY <1>1, <1>9, <2>1
         DEF Polls, Observe, EnterTryDequeue, PopShard, LockForDequeue, NextLevel,
             LeaveShard, PutBackShard, NoTask, Doze, WakeUp, entryVars, drrVars
  <1>10. CASE p \in Consumers /\ Visit(p)
    <2>1. \E l \in Labels \ {"commit"} : \E v : Moves(p, l, v)
      BY <1>10, VisitEffect DEF Labels
    <2> QED
      BY <1>1, <1>10, <2>1 DEF Visit, drrVars
  <1>11. CASE p \in Cancellers /\ (CancelTake(p) \/ CancelMark(p))
    <2>1. \E l \in {"mark", "release"} : \E v : Moves(p, l, v)
      BY <1>1, <1>11, Stay, Zenon DEF CancelTake, CancelMark, Goto, Moves
    <2>2. \E l \in Labels \ {"commit"} : \E v : Moves(p, l, v)
      BY <2>1 DEF Labels
    <2> QED
      BY <1>1, <1>11, <2>2 DEF CancelTake, CancelMark, drrVars, entryVars
  <1>12. CASE p \in Closers /\ Close(p)
    <2>1. Moves(p, "notify", loc[p])
      BY <1>1, <1>12, Stay DEF Close
    <2>2. \E l \in Labels \ {"commit"} : \E v : Moves(p, l, v)
      BY <2>1 DEF Labels
    <2> QED
      BY <1>1, <1>12, <2>2 DEF Close, drrVars, entryVars
  <1>13. CASE p \in Procs /\ (Release(p) \/ NotifyAll(p))
    <2>1. loc[p].then \in {"idle", "admit", "reserve", "weigh", "leave"}
      BY <1>1 DEF TypeOK, LocType
    <2>2. \E l \in {"notify", "idle", loc[p].then} : \E v : Moves(p, l, v)
      BY <1>1, <1>13, Stay DEF Release, NotifyAll
    <2>3. \E l \in Labels \ {"commit"} : \E v : Moves(p, l, v)
      BY <2>1, <2>2 DEF Labels
    <2> QED
      BY <1>1, <1>13, <2>3 DEF Release, NotifyAll, drrVars, entryVars
  <1> QED
    BY <1>2, <1>3, <1>4, <1>5, <1>6, <1>7, <1>8, <1>9, <1>10, <1>11, <1>12, <1>13
       DEF Serves, ProducerStep

-----------------------------------------------------------------------------
(* Deficits. *)

\* The deficits of the tenants stay, and no task is popped.
LEMMA ServesPaid ==
  ASSUME Grounds, TypeInv', DeficitInv, NEW p, Serves(p)
  PROVE  DeficitInv'
  <1> USE DEF Grounds
  <1>1. /\ p \in Procs /\ deficit' = deficit
        /\ \A x \in DOMAIN task : task'[x] = task[x]
    BY ServesMoves
  <1>2. PICK l, v : l \in Labels \ {"commit"} /\ Moves(p, l, v)
    BY ServesMoves
  <1>3. \A q \in Procs : pc'[q] = "commit" => pc[q] = "commit" /\ loc'[q] = loc[q]
    BY <1>1, <1>2, PhaseSets DEF TypeInv
  <1>4. DeficitBound'
    BY <1>1 DEF DeficitInv, DeficitBound
  <1>5. ASSUME NEW c \in Consumers, pc'[c] = "commit"
        PROVE  task'[loc'[c].item].cost
                 <= deficit'[task'[loc'[c].item].tenant][task'[loc'[c].item].prio]
    <2>1. pc[c] = "commit" /\ loc'[c] = loc[c]
      BY <1>3, <1>5 DEF Procs
    <2>2. loc[c].item \in DOMAIN task
      BY <2>1 DEF TypeInv, LocalsSet, Procs
    <2> QED
      BY <1>1, <2>1, <2>2 DEF DeficitInv
  <1> QED
    BY <1>4, <1>5 DEF DeficitInv

\* A tenant that cannot pay earns a quantum; one that can has the task popped.
LEMMA WeighPaid ==
  ASSUME Grounds, TypeInv', DeficitInv, NEW c \in Consumers, Weigh(c)
  PROVE  DeficitInv'
  <1> USE DEF Grounds
  <1> DEFINE s == loc[c].shard
             i == loc[c].level
             t == Head(ring[s][i])
             x == Front(queue[t][i])
  <1>1. /\ pc[c] = "weigh" /\ task' = task /\ c \in Procs /\ c \notin Producers /\ TypeOK
        /\ deficit \in [Tenants -> [Prios -> Int]] /\ Quantum[t] \in Nat \ {0}
        /\ t \in Tenants /\ i \in Prios /\ s = ShardOf(t) /\ Locking(c) /\ HeldShard(c) = s
        /\ queue[t][i] \subseteq DOMAIN task /\ DOMAIN task \subseteq Nat
    <2>1. pc[c] = "weigh" /\ task' = task
      BY DEF Weigh
    <2>2. /\ c \in Procs /\ c \notin Producers /\ s \in Shards /\ i \in Prios /\ t \in Tenants
          /\ s = ShardOf(t) /\ Locking(c) /\ HeldShard(c) = s
      BY <2>1, AtTheRing
    <2>3. deficit \in [Tenants -> [Prios -> Int]] /\ TypeOK
      BY DEF TypeInv, TypeOK, SharedOK
    <2>4. queue[t][i] \subseteq DOMAIN task /\ DOMAIN task \subseteq Nat
      <3>1. \A z \in Tenants, j \in Prios : queue[z][j] \subseteq DOMAIN task
        BY EntryFacts
      <3>2. DOMAIN task \subseteq Nat
        BY EntryFacts
      <3> HIDE DEF t, i
      <3> QED
        BY <2>2, <3>1, <3>2
    <2>5. Quantum[t] \in Nat \ {0}
      BY <2>2, SchedulerAssumption
    <2> QED
      BY <2>1, <2>2, <2>3, <2>4, <2>5
  <1>2. queue[t][i] # {} =>
          /\ x \in DOMAIN task /\ task[x].tenant = t /\ task[x].prio = i
          /\ task[x].cost \in Nat /\ task[x].cost <= MaxCost
    <2> SUFFICES ASSUME queue[t][i] # {}
                 PROVE  /\ x \in DOMAIN task /\ task[x].tenant = t /\ task[x].prio = i
                        /\ task[x].cost \in Nat /\ task[x].cost <= MaxCost
      OBVIOUS
    <2>1. x \in queue[t][i]
      BY <1>1, FrontInQueue
    <2>2. task[x].tenant = t /\ task[x].prio = i
      <3> HIDE DEF x, t, i
      <3> QED
        BY <1>1, <2>1 DEF LedgerInv, QueuesSorted
    <2>3. x \in DOMAIN task /\ task[x] \in Requests
      BY <1>1, <2>1, EntryFacts
    <2> QED
      BY <2>2, <2>3, RequestType, CostBounded
  <1>3. \A q \in Consumers \ {c} :
          pc[q] = "commit" => ~(task[loc[q].item].tenant = t /\ task[loc[q].item].prio = i)
    <2> SUFFICES ASSUME NEW q \in Consumers, pc[q] = "commit", q # c,
                        task[loc[q].item].tenant = t
                 PROVE  FALSE
      OBVIOUS
    <2>1. loc[q].shard = s /\ q \in Procs /\ q \notin Producers
      BY <1>1, SchedulerAssumption DEF LedgerInv, PoppedFirst, PoppedBy, Procs
    <2>2. Locking(q) /\ HeldShard(q) = s
      BY <2>1 DEF Locking, HeldShard
    <2> QED
      BY <1>1, <2>1, <2>2, Alone
  <1>4. \/ /\ queue[t][i] = {} /\ deficit' = deficit /\ Moves(c, "scan", loc[c])
        \/ /\ queue[t][i] # {} /\ ~Affordable(t, i)
           /\ deficit' = [deficit EXCEPT ![t][i] = @ + Quantum[t]]
           /\ Moves(c, "scan", loc[c])
        \/ /\ queue[t][i] # {} /\ Affordable(t, i)
           /\ deficit' = deficit
           /\ Moves(c, "commit", [loc[c] EXCEPT !.item = x])
    BY <1>1, Stay DEF Weigh, Goto, Moves
  <1>5. [loc[c] EXCEPT !.item = x].item = x
    BY <1>1 DEF TypeOK, LocType
  <1> HIDE DEF s, i, t, x
  <1>6. CASE queue[t][i] # {} /\ ~Affordable(t, i)
    <2>1. /\ deficit[t][i] \in Int /\ deficit[t][i] < task[x].cost /\ deficit[t][i] >= 0
      BY <1>1, <1>2, <1>6 DEF Affordable, DeficitInv, DeficitBound, x
    <2>2. /\ deficit'[t][i] = deficit[t][i] + Quantum[t]
          /\ \A z \in Tenants, j \in Prios : ~(z = t /\ j = i) => deficit'[z][j] = deficit[z][j]
          /\ Moves(c, "scan", loc[c])
      BY <1>1, <1>4, <1>6
    <2>3. deficit'[t][i] >= 0 /\ deficit'[t][i] < MaxCost + Quantum[t]
      BY <1>1, <1>2, <1>6, <2>1, <2>2, CostBounded
    <2>4. DeficitBound'
      BY <2>2, <2>3 DEF DeficitInv, DeficitBound
    <2>5. ASSUME NEW q \in Consumers, pc'[q] = "commit"
          PROVE  task'[loc'[q].item].cost
                   <= deficit'[task'[loc'[q].item].tenant][task'[loc'[q].item].prio]
      <3>1. pc[q] = "commit" /\ loc'[q] = loc[q] /\ q # c
        BY <1>1, <2>2, <2>5, PhaseSets DEF TypeInv, Procs
      <3>2. task[loc[q].item].tenant \in Tenants /\ task[loc[q].item].prio \in Prios
        BY <3>1, EntryFacts DEF TypeInv, LocalsSet, Procs
      <3>3. deficit'[task[loc[q].item].tenant][task[loc[q].item].prio]
              = deficit[task[loc[q].item].tenant][task[loc[q].item].prio]
        BY <1>3, <2>2, <3>1, <3>2
      <3> QED
        BY <1>1, <3>1, <3>3 DEF DeficitInv
    <2> QED
      BY <2>4, <2>5 DEF DeficitInv
  <1>7. CASE ~(queue[t][i] # {} /\ ~Affordable(t, i))
    <2>1. deficit' = deficit
      BY <1>4, <1>7
    <2>2. DeficitBound'
      BY <2>1 DEF DeficitInv, DeficitBound
    <2>3. ASSUME NEW q \in Consumers, pc'[q] = "commit"
          PROVE  task'[loc'[q].item].cost
                   <= deficit'[task'[loc'[q].item].tenant][task'[loc'[q].item].prio]
      <3>1. CASE q # c
        <4>1. pc[q] = "commit" /\ loc'[q] = loc[q]
          BY <1>1, <1>4, <1>7, <2>3, <3>1, PhaseSets DEF TypeInv, Procs
        <4> QED
          BY <1>1, <2>1, <4>1 DEF DeficitInv
      <3>2. CASE q = c
        <4>1. queue[t][i] # {} /\ Affordable(t, i) /\ loc'[c].item = x
          <5>1. Moves(c, "scan", loc[c]) => pc'[c] = "scan"
            BY <1>1, PhaseSets DEF TypeInv
          <5>2. Moves(c, "commit", [loc[c] EXCEPT !.item = x])
                  => loc'[c] = [loc[c] EXCEPT !.item = x]
            BY <1>1, PhaseSets DEF TypeInv
          <5> QED
            BY <1>4, <1>5, <1>7, <2>3, <3>2, <5>1, <5>2
        <4>2. task[x].cost <= deficit[t][i]
          BY <1>1, <1>2, <4>1 DEF Affordable, x
        <4> QED
          BY <1>1, <1>2, <2>1, <3>2, <4>1, <4>2
      <3> QED
        BY <3>1, <3>2
    <2> QED
      BY <2>2, <2>3 DEF DeficitInv
  <1> QED
    BY <1>6, <1>7

\* A task is paid for when it is handed out, by the tenant it was popped from.
LEMMA CommitPaid ==
  ASSUME Grounds, TypeInv', DeficitInv, NEW c \in Consumers, Commit(c)
  PROVE  DeficitInv'
  <1> USE DEF Grounds
  <1> DEFINE x == loc[c].item
             t == task[x].tenant
             i == task[x].prio
  <1>1. /\ pc[c] = "commit" /\ task' = task /\ c \in Procs /\ c \notin Producers /\ TypeOK
        /\ deficit \in [Tenants -> [Prios -> Int]]
    BY SchedulerAssumption DEF Commit, TypeInv, TypeOK, SharedOK, Procs
  <1>2. x \in DOMAIN task /\ t \in Tenants /\ i \in Prios /\ task[x].cost \in Nat
    BY <1>1, EntryFacts, RequestType DEF TypeInv, LocalsSet
  <1>3. loc[c].level = i /\ loc[c].shard = ShardOf(t)
    BY <1>1 DEF LedgerInv, PoppedFirst, PoppedBy
  <1>4. task[x].cost <= deficit[t][i] /\ deficit[t][i] < MaxCost + Quantum[t]
    BY <1>1, <1>2 DEF DeficitInv, DeficitBound
  <1>5. \/ deficit' = deficit
        \/ deficit' = [deficit EXCEPT ![t][i] = @ - task[x].cost]
    BY <1>3 DEF Commit
  <1>6. \E l \in {"release", "scan"} : \E v : Moves(c, l, v)
    BY <1>1, Zenon DEF Commit, Goto, Moves
  <1>7. \A q \in Consumers \ {c} :
          pc[q] = "commit" => task[loc[q].item].tenant # t
    <2> SUFFICES ASSUME NEW q \in Consumers, pc[q] = "commit", q # c,
                        task[loc[q].item].tenant = t
                 PROVE  FALSE
      OBVIOUS
    <2>1. loc[q].shard = ShardOf(t) /\ q \in Procs /\ q \notin Producers
      BY SchedulerAssumption DEF LedgerInv, PoppedFirst, PoppedBy, Procs
    <2>2. Locking(q) /\ HeldShard(q) = ShardOf(t) /\ Locking(c) /\ HeldShard(c) = ShardOf(t)
      BY <1>1, <1>3, <2>1 DEF Locking, HeldShard
    <2> QED
      BY <1>1, <2>1, <2>2, Alone
  <1> HIDE DEF x, t, i
  <1>8. /\ \A z \in Tenants, j \in Prios : ~(z = t /\ j = i) => deficit'[z][j] = deficit[z][j]
        /\ deficit'[t][i] \in {deficit[t][i], deficit[t][i] - task[x].cost}
    BY <1>1, <1>2, <1>5
  <1>9. DeficitBound'
    <2>1. deficit'[t][i] >= 0 /\ deficit'[t][i] < MaxCost + Quantum[t]
      <3>1. deficit[t][i] \in Int /\ deficit[t][i] >= 0 /\ Quantum[t] \in Nat
        BY <1>1, <1>2, SchedulerAssumption DEF DeficitInv, DeficitBound
      <3> QED
        BY <1>2, <1>4, <1>8, <3>1, CostBounded
    <2> QED
      BY <1>8, <2>1 DEF DeficitInv, DeficitBound
  <1>10. ASSUME NEW q \in Consumers, pc'[q] = "commit"
         PROVE  task'[loc'[q].item].cost
                  <= deficit'[task'[loc'[q].item].tenant][task'[loc'[q].item].prio]
    <2>1. pc[q] = "commit" /\ loc'[q] = loc[q] /\ q # c
      BY <1>1, <1>6, <1>10, PhaseSets DEF TypeInv, Procs
    <2>2. task[loc[q].item].tenant \in Tenants /\ task[loc[q].item].prio \in Prios
      BY <2>1, EntryFacts DEF TypeInv, LocalsSet, Procs
    <2>3. deficit'[task[loc[q].item].tenant][task[loc[q].item].prio]
            = deficit[task[loc[q].item].tenant][task[loc[q].item].prio]
      BY <1>7, <1>8, <2>1, <2>2
    <2> QED
      BY <1>1, <2>1, <2>3 DEF DeficitInv
  <1> QED
    BY <1>9, <1>10 DEF DeficitInv

\* A step of the system is one of these.
LEMMA NextCases ==
  ASSUME Next
  PROVE  \/ \E p : Serves(p)
         \/ \E c \in Consumers : Weigh(c) \/ Commit(c)
         \/ Expire
  BY DEF Next, Serves, ConsumerStep, Polls

\* No tenant runs into debt or banks a full task and a quantum (the deficit loop
\* of try_dequeue).
THEOREM DeficitsBounded == Spec => []DeficitBound
  <1>1. Init => DeficitInv
    <2> SUFFICES ASSUME Init
                 PROVE  DeficitInv
      OBVIOUS
    <2>1. \A c \in Consumers : pc[c] # "commit"
      BY DEF Init, Procs
    <2>2. \A t \in Tenants, i \in Prios : deficit[t][i] = 0 /\ Quantum[t] \in Nat \ {0}
      BY SchedulerAssumption DEF Init
    <2>3. DeficitBound
      BY <2>2, CostBounded DEF DeficitBound
    <2> QED
      BY <2>1, <2>3 DEF DeficitInv
  <1>2. TypeInv /\ TypeInv' /\ SlotInv /\ LedgerInv /\ DeficitInv /\ [Next]_vars => DeficitInv'
    <2> SUFFICES ASSUME Grounds, TypeInv', DeficitInv, [Next]_vars
                 PROVE  DeficitInv'
      BY DEF Grounds
    <2>1. CASE UNCHANGED <<task, deficit, pc, loc>>
      BY <2>1 DEF DeficitInv, DeficitBound
    <2>2. CASE Next
      BY <2>1, <2>2, NextCases, ServesPaid, WeighPaid, CommitPaid DEF Expire, drrVars
    <2> QED
      BY <2>1, <2>2 DEF vars, entryVars, drrVars
  <1>3. DeficitInv => DeficitBound
    BY DEF DeficitInv
  <1> QED
    BY <1>1, <1>2, <1>3, TypeCorrect, SlotInvariant, LedgerInvariant, PTL DEF Spec

-----------------------------------------------------------------------------
(* The places of a shard. *)

InService == {"grab", "scan", "weigh", "commit", "leave", "putback", "release", "notify"}
InWake == {"activate", "publish"}

\* The sets of the places are finite.
LEMMA PlacesFinite ==
  ASSUME TypeOK, NEW s
  PROVE  /\ IsFiniteSet(Listed(s)) /\ Cardinality(Listed(s)) \in Nat
         /\ IsFiniteSet(Serving(s)) /\ Cardinality(Serving(s)) \in Nat
         /\ IsFiniteSet(Waking(s)) /\ Cardinality(Waking(s)) \in Nat
  <1>1. activeShards \in Seq(Shards)
    BY DEF TypeOK, SharedOK
  <1>2. Len(activeShards) \in Nat /\ DOMAIN activeShards = 1 .. Len(activeShards)
    BY <1>1
  <1>3. IsFiniteSet(DOMAIN activeShards) /\ IsFiniteSet(Procs)
    BY <1>2, FS_Interval, SchedulerAssumption
  <1>4. /\ Listed(s) \subseteq DOMAIN activeShards
        /\ Serving(s) \subseteq Procs /\ Waking(s) \subseteq Procs
    BY DEF Listed, Serving, Waking, Procs
  <1> QED
    BY <1>3, <1>4, FS_Subset, FS_CardinalityType

\* A shard that is reached as ReachInv says has at most one place, and has one
\* if there is work in it.
LEMMA ReachedOnce ==
  ASSUME TypeOK, NEW s \in Shards, ShardReached(s)
  PROVE  Places(s) <= 1 /\ (HasWork(s) => Places(s) = 1)
  <1>1. /\ Cardinality({}) = 0
        /\ \A x : Cardinality({x}) = 1
    BY FS_EmptySet, FS_Singleton
  <1>2. \/ Cardinality(Listed(s)) = 0 /\ Cardinality(Serving(s)) = 0
           /\ Cardinality(Waking(s)) = 0 /\ ~HasWork(s)
        \/ Cardinality(Listed(s)) = 1 /\ Cardinality(Serving(s)) = 0
           /\ Cardinality(Waking(s)) = 0
        \/ Cardinality(Listed(s)) = 0 /\ Cardinality(Serving(s)) = 1
           /\ Cardinality(Waking(s)) = 0
        \/ Cardinality(Listed(s)) = 0 /\ Cardinality(Serving(s)) = 0
           /\ Cardinality(Waking(s)) = 1
    BY <1>1 DEF ShardReached
  <1> QED
    BY <1>2 DEF Places

LEMMA ReachesRunnable ==
  ASSUME TypeInv, ReachInv
  PROVE  RunnableReachable
  BY ReachedOnce DEF TypeInv, ReachInv, RingsServed, RunnableReachable

\* What a step of p does to the places of a shard.
LEMMA PlacesMoved ==
  ASSUME TypeOK, NEW p \in Procs, NEW l, NEW v, Moves(p, l, v), NEW s
  PROVE  /\ p \notin Consumers => Serving(s)' = Serving(s)
         /\ p \notin Producers => Waking(s)' = Waking(s)
         /\ p \in Consumers =>
              Serving(s)' = IF v.shard = s /\ l \in InService
                            THEN Serving(s) \cup {p} ELSE Serving(s) \ {p}
         /\ p \in Producers =>
              Waking(s)' = IF ShardOf(v.job.tenant) = s /\ l \in InWake
                           THEN Waking(s) \cup {p} ELSE Waking(s) \ {p}
         /\ activeShards' = activeShards => Listed(s)' = Listed(s)
  <1>1. /\ pc'[p] = l /\ loc'[p] = v
        /\ \A q \in Procs \ {p} : pc'[q] = pc[q] /\ loc'[q] = loc[q]
    BY DEF TypeOK, Moves
  <1>2. Producers \subseteq Procs /\ Consumers \subseteq Procs
    BY DEF Procs
  <1>3. \A c \in Consumers :
          c \in Serving(s)' <=> IF c = p THEN v.shard = s /\ l \in InService
                                         ELSE c \in Serving(s)
    BY <1>1, <1>2 DEF Serving, InService
  <1>4. \A q \in Producers :
          q \in Waking(s)' <=> IF q = p THEN ShardOf(v.job.tenant) = s /\ l \in InWake
                                        ELSE q \in Waking(s)
    BY <1>1, <1>2 DEF Waking, InWake, JobShard
  <1>5. /\ Serving(s)' \subseteq Consumers /\ Waking(s)' \subseteq Producers
        /\ Serving(s) \subseteq Consumers /\ Waking(s) \subseteq Producers
    BY DEF Serving, Waking
  <1>6. activeShards' = activeShards => Listed(s)' = Listed(s)
    BY DEF Listed
  <1> QED
    BY <1>3, <1>4, <1>5, <1>6

\* A step that leaves a shard in its place.
LEMMA InPlace ==
  ASSUME TypeOK, TypeOK', NEW p \in Procs, NEW l, NEW v, Moves(p, l, v),
         NEW s \in Shards, ShardReached(s),
         Listed(s) = {} => Listed(s)' = {},
         (\E k \in DOMAIN activeShards : Listed(s) = {k})
           => \E k \in DOMAIN activeShards' : Listed(s)' = {k},
         shardActive'[s] = shardActive[s],
         HasWork(s)' <=> HasWork(s),
         p \in Consumers =>
           /\ l \in InService /\ v.shard = s <=> p \in Serving(s)
           /\ p \in Serving(s) /\ Locking(p) => HasWork(s)' \/ Locking(p)',
         p \in Producers => pc[p] \notin InWake /\ l \notin InWake
  PROVE  ShardReached(s)'
  <1>1. \A q \in Procs \ {p} : pc'[q] = pc[q] /\ loc'[q] = loc[q]
    BY DEF TypeOK, Moves
  <1>2. Serving(s)' = Serving(s)
    BY PlacesMoved
  <1>3. p \notin Waking(s)
    BY DEF Waking, InWake
  <1>4. Waking(s)' = Waking(s)
    BY <1>3, PlacesMoved
  <1>5. \A c \in Consumers : c \in Serving(s) /\ Locking(c) => HasWork(s)' \/ Locking(c)'
    <2> TAKE c \in Consumers
    <2>1. c # p => (Locking(c)' <=> Locking(c))
      BY <1>1 DEF Locking, Procs
    <2> QED
      BY <2>1
  <1>6. \A q \in Producers : q \in Waking(s) => pc'[q] = pc[q]
    BY <1>1, <1>3 DEF Procs
  <1>7. CASE /\ Listed(s) = {} /\ Serving(s) = {} /\ Waking(s) = {}
             /\ ~HasWork(s) /\ ~shardActive[s]
    BY <1>2, <1>4, <1>7 DEF ShardReached
  <1>8. CASE /\ \E k \in DOMAIN activeShards : Listed(s) = {k}
             /\ Serving(s) = {} /\ Waking(s) = {}
             /\ HasWork(s) /\ shardActive[s]
    BY <1>2, <1>4, <1>8 DEF ShardReached
  <1>9. CASE \E c \in Consumers :
                /\ Listed(s) = {} /\ Serving(s) = {c} /\ Waking(s) = {}
                /\ HasWork(s) \/ Locking(c)
                /\ shardActive[s]
    BY <1>2, <1>4, <1>5, <1>9 DEF ShardReached
  <1>10. CASE \E q \in Producers :
                /\ Listed(s) = {} /\ Serving(s) = {} /\ Waking(s) = {q}
                /\ HasWork(s)
                /\ shardActive[s] <=> pc[q] = "publish"
    BY <1>2, <1>4, <1>6, <1>10 DEF ShardReached
  <1> QED
    BY <1>7, <1>8, <1>9, <1>10 DEF ShardReached

\* The producers inside the shards go on knowing whether theirs were idle, for
\* only the one that has a shard locked changes its rings.
LEMMA StillKnown ==
  ASSUME TypeInv, TypeInv', IdleKnown, NEW p \in Procs, NEW l, NEW v, Moves(p, l, v),
         \A s \in Shards : \/ HasWork(s)' <=> HasWork(s)
                           \/ Locking(p) /\ HeldShard(p) = s,
         p \in Producers /\ Locking(p)' => (v.wasIdle <=> ~HasWork(JobShard(p)))'
  PROVE  IdleKnown'
  <1>1. /\ \A q \in Procs \ {p} : pc'[q] = pc[q] /\ loc'[q] = loc[q]
        /\ loc'[p] = v
    BY DEF TypeInv, TypeOK, Moves
  <1> SUFFICES ASSUME NEW q \in Producers, Locking(q)'
               PROVE  (loc[q].wasIdle <=> ~HasWork(JobShard(q)))'
    BY DEF IdleKnown
  <1>2. CASE q = p
    BY <1>1, <1>2
  <1>3. CASE q # p
    <2>1. /\ q \in Procs /\ loc'[q] = loc[q] /\ pc'[q] = pc[q]
      BY <1>1, <1>3 DEF Procs
    <2>2. Locking(q) /\ HeldShard(q) = JobShard(q) /\ JobShard(q) \in Shards
      BY <2>1, LocFields DEF Locking, HeldShard, TypeInv
    <2>3. PICK s \in Shards : s = JobShard(q)
      BY <2>2
    <2>4. JobShard(q)' = s
      BY <2>1, <2>3 DEF JobShard
    <2>5. HasWork(s)' <=> HasWork(s)
      BY <1>3, <2>1, <2>2, <2>3, Alone
    <2>6. loc[q].wasIdle <=> ~HasWork(s)
      BY <2>2, <2>3 DEF IdleKnown
    <2>7. HasWork(JobShard(q))' <=> HasWork(s)'
      BY <2>4 DEF HasWork
    <2> QED
      BY <2>1, <2>5, <2>6, <2>7
  <1> QED
    BY <1>2, <1>3

\* A step that leaves the rings alone and every shard in its place.
LEMMA ReachStays ==
  ASSUME Grounds, TypeInv', ReachInv, NEW p \in Procs, NEW l, NEW v, Moves(p, l, v),
         RingsServed', ring' = ring, UNCHANGED shardVars,
         p \in Consumers =>
           /\ \/ l \notin InService /\ pc[p] \notin InService
              \/ l \in InService /\ pc[p] \in InService /\ v.shard = loc[p].shard
           /\ pc[p] \in InService /\ Locking(p) => Locking(p)' \/ HasWork(loc[p].shard)
           /\ l \in {"release", "notify"} => v.then \in {"weigh", "leave"},
         p \in Producers =>
           /\ pc[p] \notin InWake /\ l \notin InWake
           /\ Locking(p)' => \/ v.wasIdle <=> ~HasWork(ShardOf(v.job.tenant))
                             \/ Locking(p) /\ v.job = loc[p].job /\ v.wasIdle = loc[p].wasIdle
  PROVE  ReachInv'
  <1> USE DEF Grounds
  <1>1. /\ pc'[p] = l /\ loc'[p] = v
        /\ \A q \in Procs \ {p} : pc'[q] = pc[q] /\ loc'[q] = loc[q]
    BY DEF TypeInv, TypeOK, Moves
  <1>2. \A s : HasWork(s)' <=> HasWork(s)
    BY DEF HasWork
  <1>3. IdleKnown'
    <2>1. p \in Producers /\ Locking(p)' => (v.wasIdle <=> ~HasWork(JobShard(p)'))
      <3> SUFFICES ASSUME p \in Producers, Locking(p)'
                   PROVE  v.wasIdle <=> ~HasWork(ShardOf(v.job.tenant))
        BY <1>1 DEF JobShard
      <3>1. CASE v.wasIdle <=> ~HasWork(ShardOf(v.job.tenant))
        BY <3>1
      <3>2. CASE Locking(p) /\ v.job = loc[p].job /\ v.wasIdle = loc[p].wasIdle
        BY <3>2 DEF ReachInv, IdleKnown, JobShard
      <3> QED
        BY <3>1, <3>2
    <2>2. p \in Producers /\ Locking(p)' => (v.wasIdle <=> ~HasWork(JobShard(p)))'
      BY <2>1 DEF HasWork
    <2> QED
      BY <1>2, <2>2, StillKnown DEF ReachInv
  <1>4. ServiceHeld'
    BY <1>1 DEF ReachInv, ServiceHeld, Procs
  <1>5. ASSUME NEW s \in Shards
        PROVE  ShardReached(s)'
    <2>1. p \in Consumers =>
            /\ l \in InService /\ v.shard = s <=> p \in Serving(s)
            /\ p \in Serving(s) /\ Locking(p) => HasWork(s)' \/ Locking(p)'
      BY <1>2 DEF Serving, InService
    <2>2. /\ activeShards' = activeShards /\ shardActive'[s] = shardActive[s]
          /\ Listed(s)' = Listed(s)
      BY DEF shardVars, Listed
    <2>3. ShardReached(s)
      BY DEF ReachInv
    <2> QED
      BY <1>2, <2>1, <2>2, <2>3, InPlace DEF TypeInv
  <1> QED
    BY <1>3, <1>4, <1>5 DEF ReachInv

\* The entries of the tenants shrink and their rings stay.
LEMMA RingsStay ==
  ASSUME RingsServed, ring' = ring,
         \A t \in Tenants, i \in Prios :
           /\ queue'[t][i] \subseteq queue[t][i]
           /\ queue'[t][i] # {} => (active'[t][i] <=> active[t][i])
           /\ active'[t][i] => active[t][i]
  PROVE  RingsServed'
  <1> SUFFICES ASSUME NEW t \in Tenants, NEW i \in Prios
               PROVE  /\ queue'[t][i] # {} => active'[t][i]
                      /\ active'[t][i] => InRing(t, i)'
    BY DEF RingsServed
  <1>1. InRing(t, i)' <=> InRing(t, i)
    BY DEF InRing
  <1>2. queue'[t][i] # {} => active'[t][i]
    BY DEF RingsServed
  <1>3. active'[t][i] => InRing(t, i)'
    BY <1>1 DEF RingsServed
  <1> QED
    BY <1>2, <1>3

\* The steps that leave the rings and the entries alone.
LEMMA Untouched ==
  ASSUME ReachInv, UNCHANGED <<queue, active, ring>>
  PROVE  RingsServed' /\ ring' = ring
  BY RingsStay DEF ReachInv

\* A call begins, and begins again.
LEMMA BeginReach ==
  ASSUME Grounds, TypeInv', ReachInv, NEW p \in Producers, Enqueue(p) \/ RetryEnqueue(p)
  PROVE  ReachInv'
  <1> USE DEF Grounds
  <1>1. /\ p \in Procs /\ p \notin Consumers
        /\ pc[p] \in {"idle", "wait"} /\ UNCHANGED <<queue, active, ring>>
        /\ UNCHANGED shardVars
    BY SchedulerAssumption
       DEF Procs, Enqueue, RetryEnqueue, BeginAttempt, entryVars, drrVars
  <1>2. \E l \in {"lock", "idle"} : \E v : Moves(p, l, v)
    BY Zenon DEF Enqueue, RetryEnqueue, BeginAttempt, Return, Goto, Moves
  <1>3. PICK l, v : l \in {"lock", "idle"} /\ Moves(p, l, v)
    BY <1>2
  <1>4. ~Locking(p)'
    BY <1>1, <1>3, PhaseSets DEF TypeInv, Locking
  <1> QED
    BY <1>1, <1>3, <1>4, Untouched, ReachStays DEF InWake

\* The purge takes a tenant off the active ones only when its queue is empty.
LEMMA PurgeRings ==
  ASSUME Grounds, ReachInv, NEW p \in Procs, NEW t \in Tenants, NEW budget,
         Purge(p, t, budget), ring' = ring
  PROVE  RingsServed'
  <1> USE DEF Grounds
  <1> DEFINE gone == [i \in Prios |-> Purgeable(queue[t][i], budget)]
  <1>1. /\ queue \in [Tenants -> [Prios -> SUBSET DOMAIN task]]
        /\ active \in [Tenants -> [Prios -> BOOLEAN]]
    BY DEF TypeInv, TypeOK, SharedOK
  <1>2. /\ queue' = [queue EXCEPT ![t] = [i \in Prios |-> @[i] \ gone[i]]]
        /\ active' = [active EXCEPT ![t] = [i \in Prios |-> @[i] /\ queue[t][i] # gone[i]]]
    BY DEF Purge
  <1> HIDE DEF gone
  <1>3. \A z \in Tenants, i \in Prios :
          /\ queue'[z][i] = IF z = t THEN queue[z][i] \ gone[i] ELSE queue[z][i]
          /\ active'[z][i] <=> IF z = t THEN active[z][i] /\ queue[z][i] # gone[i]
                                        ELSE active[z][i]
    BY <1>1, <1>2
  <1>4. \A z \in Tenants, i \in Prios :
          /\ queue'[z][i] \subseteq queue[z][i]
          /\ queue'[z][i] # {} => (active'[z][i] <=> active[z][i])
          /\ active'[z][i] => active[z][i]
    <2> TAKE z \in Tenants, i \in Prios
    <2>1. CASE z = t
      <3>1. queue'[z][i] = queue[z][i] \ gone[i]
        BY <1>3, <2>1
      <3>2. active'[z][i] <=> active[z][i] /\ queue[z][i] # gone[i]
        BY <1>3, <2>1
      <3>3. queue'[z][i] # {} => queue[z][i] # gone[i]
        BY <3>1
      <3> QED
        BY <3>1, <3>2, <3>3
    <2>2. CASE z # t
      BY <1>3, <2>2
    <2> QED
      BY <2>1, <2>2
  <1> QED
    BY <1>4, RingsStay DEF ReachInv

\* The producer that takes the mutex looks at the rings.
LEMMA LockReach ==
  ASSUME Grounds, TypeInv', ReachInv, NEW p \in Producers, LockForEnqueue(p)
  PROVE  ReachInv'
  <1> USE DEF Grounds
  <1> DEFINE t == loc[p].job.tenant
             s == JobShard(p)
             w == [loc[p] EXCEPT !.wasIdle = ~HasWork(s), !.then = "admit",
                                 !.purged = (PurgeReason(t) = "full")]
  <1>1. /\ p \in Procs /\ p \notin Consumers /\ pc[p] = "lock" /\ t \in Tenants
        /\ ring' = ring /\ UNCHANGED shardVars
    BY LocFields, SchedulerAssumption DEF LockForEnqueue, TypeInv, Procs, shardVars
  <1>2. w.job = loc[p].job /\ (w.wasIdle <=> ~HasWork(ShardOf(w.job.tenant)))
    <2>1. loc[p] \in LocType
      BY <1>1 DEF TypeInv, TypeOK
    <2> QED
      BY <2>1 DEF LocType, JobShard
  <1>3. \/ Moves(p, "idle", Fresh) /\ UNCHANGED <<queue, active>>
        \/ /\ \E l \in {"admit", "release"} : Moves(p, l, w)
           /\ \/ UNCHANGED <<queue, active>>
              \/ \E budget : Purge(p, t, budget)
    BY DEF LockForEnqueue, Return, Goto, Moves
  <1>4. RingsServed'
    <2>1. CASE UNCHANGED <<queue, active>>
      BY <1>1, <2>1, Untouched
    <2>2. CASE \E budget : Purge(p, t, budget)
      <3>1. PICK budget : Purge(p, t, budget)
        BY <2>2
      <3> QED
        BY <1>1, <3>1, PurgeRings
    <2> HIDE DEF w
    <2> QED
      BY <1>3, <2>1, <2>2
  <1> HIDE DEF w
  <1>5. CASE Moves(p, "idle", Fresh)
    <2>1. ~Locking(p)'
      BY <1>1, <1>5, PhaseSets DEF TypeInv, Locking
    <2> QED
      BY <1>1, <1>4, <1>5, <2>1, ReachStays DEF InWake
  <1>6. CASE \E l \in {"admit", "release"} : Moves(p, l, w)
    <2>1. PICK l \in {"admit", "release"} : Moves(p, l, w)
      BY <1>6
    <2> QED
      BY <1>1, <1>2, <1>4, <2>1, ReachStays DEF InWake
  <1> QED
    BY <1>3, <1>5, <1>6

\* The ways on from the mutex to the push.
LEMMA AdmitReach ==
  ASSUME Grounds, TypeInv', ReachInv, NEW p \in Producers,
         Admit(p) \/ AdmitByDropping(p) \/ Reserve(p)
  PROVE  ReachInv'
  <1> USE DEF Grounds
  <1> DEFINE w == [loc[p] EXCEPT !.purged = TRUE, !.then = "reserve"]
  <1>1. /\ p \in Procs /\ p \notin Consumers /\ pc[p] \in {"admit", "reserve"}
        /\ ring' = ring /\ UNCHANGED shardVars /\ TypeOK /\ Locking(p)
        /\ loc[p].job.tenant \in Tenants
    BY LocFields, SchedulerAssumption
       DEF Admit, AdmitByDropping, Reserve, TypeInv, Procs, drrVars, Locking
  <1>2. w.job = loc[p].job /\ w.wasIdle = loc[p].wasIdle
    BY <1>1 DEF TypeOK, LocType
  <1>3. \/ \E l \in {"idle", "wait"} : \E v : Moves(p, l, v)
        \/ \E l \in {"reserve", "push"} : Moves(p, l, loc[p])
        \/ Moves(p, "release", w)
    <2>1. CASE Admit(p)
      BY <1>1, <2>1, Stay, RefuseMoves DEF Admit
    <2>2. CASE AdmitByDropping(p)
      BY <2>2, DropEffect
    <2>3. CASE Reserve(p)
      <3>1. \/ Refuse(p)
            \/ Goto(p, "push") /\ UNCHANGED loc
            \/ Goto(p, "release") /\ loc' = [loc EXCEPT ![p] = w]
        BY <2>3 DEF Reserve
      <3>2. CASE Refuse(p)
        BY <1>1, <3>2, RefuseMoves
      <3>3. CASE Goto(p, "push") /\ UNCHANGED loc
        BY <1>1, <3>3, Stay
      <3>4. CASE Goto(p, "release") /\ loc' = [loc EXCEPT ![p] = w]
        BY <3>4 DEF Goto, Moves
      <3> QED
        BY <3>1, <3>2, <3>3, <3>4
    <2> QED
      BY <2>1, <2>2, <2>3
  <1>4. RingsServed'
    <2>1. CASE Admit(p)
      BY <2>1, Untouched DEF Admit, entryVars, drrVars
    <2>2. CASE AdmitByDropping(p)
      <3>1. active' = active
        BY <2>2 DEF AdmitByDropping, drrVars
      <3>2. \A t \in Tenants, i \in Prios : queue'[t][i] \subseteq queue[t][i]
        BY <1>1, <2>2, DropEffect
      <3> QED
        BY <1>1, <3>1, <3>2, RingsStay DEF ReachInv
    <2>3. CASE Reserve(p)
      <3>1. UNCHANGED <<queue, active>> \/ Purge(p, loc[p].job.tenant, FullBudget)
        BY <2>3 DEF Reserve
      <3> QED
        BY <1>1, <3>1, PurgeRings, Untouched
    <2> QED
      BY <2>1, <2>2, <2>3
  <1> HIDE DEF w
  <1>5. CASE \E l \in {"idle", "wait"} : \E v : Moves(p, l, v)
    <2>1. PICK l, v : l \in {"idle", "wait"} /\ Moves(p, l, v)
      BY <1>5
    <2>2. ~Locking(p)'
      BY <1>1, <2>1, PhaseSets DEF TypeInv, Locking
    <2> QED
      BY <1>1, <1>4, <2>1, <2>2, ReachStays DEF InWake
  <1>6. CASE \/ \E l \in {"reserve", "push"} : Moves(p, l, loc[p])
             \/ Moves(p, "release", w)
    <2>1. PICK l \in {"reserve", "push", "release"}, v \in {loc[p], w} : Moves(p, l, v)
      BY <1>6
    <2> QED
      BY <1>1, <1>2, <1>4, <2>1, ReachStays DEF InWake
  <1> QED
    BY <1>3, <1>5, <1>6

\* The release of slots and the notification.
LEMMA SettleReach ==
  ASSUME Grounds, TypeInv', ReachInv, NEW p \in Procs, Release(p) \/ NotifyAll(p)
  PROVE  ReachInv'
  <1> USE DEF Grounds
  <1>1. /\ TypeOK /\ UNCHANGED <<queue, active, ring>> /\ UNCHANGED shardVars
        /\ pc[p] \in {"release", "notify"}
    BY DEF TypeInv, Release, NotifyAll, entryVars, drrVars
  <1>2. \/ Moves(p, "notify", loc[p]) /\ pc[p] = "release"
        \/ Moves(p, loc[p].then, loc[p]) /\ loc[p].then # "idle"
        \/ Moves(p, "idle", Fresh) /\ loc[p].then = "idle"
    BY <1>1, Stay DEF Release, NotifyAll
  <1>3. loc[p].then \in {"idle", "admit", "reserve", "weigh", "leave"}
    BY <1>1 DEF TypeOK, LocType
  <1>4. p \in Consumers => loc[p].then \in {"weigh", "leave"}
    BY <1>1 DEF ReachInv, ServiceHeld
  <1>5. CASE Moves(p, "idle", Fresh) /\ loc[p].then = "idle"
    <2>1. ~Locking(p)'
      BY <1>1, <1>5, PhaseSets DEF Locking, TypeInv
    <2> QED
      BY <1>1, <1>4, <1>5, <2>1, Untouched, ReachStays DEF InWake
  <1>6. CASE \/ Moves(p, "notify", loc[p]) /\ pc[p] = "release"
             \/ Moves(p, loc[p].then, loc[p]) /\ loc[p].then # "idle"
    <2>1. PICK l \in {"notify", "admit", "reserve", "weigh", "leave"} :
            Moves(p, l, loc[p]) /\ (l = "notify" \/ (l = loc[p].then /\ l # "idle"))
      BY <1>3, <1>6
    <2>2. pc'[p] = l /\ loc'[p] = loc[p]
      BY <1>1, <2>1, PhaseSets DEF TypeInv
    <2>3. Locking(p)' <=> Locking(p)
      BY <1>1, <1>3, <2>1, <2>2 DEF Locking
    <2>4. p \in Consumers =>
            /\ l \in InService /\ pc[p] \in InService
            /\ l \in {"release", "notify"} => loc[p].then \in {"weigh", "leave"}
      BY <1>1, <1>4, <2>1 DEF InService
    <2> QED
      BY <1>1, <2>1, <2>3, <2>4, Untouched, ReachStays DEF InWake
  <1> QED
    BY <1>2, <1>5, <1>6

\* What a client does is of no concern to the shards.
LEMMA ClientReach ==
  ASSUME Grounds, TypeInv', ReachInv, NEW k \in Cancellers \cup Closers,
         \/ k \in Cancellers /\ (CancelTake(k) \/ CancelMark(k))
         \/ k \in Closers /\ Close(k)
  PROVE  ReachInv'
  <1> USE DEF Grounds
  <1>1. /\ k \in Procs /\ k \notin Consumers /\ k \notin Producers /\ TypeOK
        /\ UNCHANGED <<queue, active, ring>> /\ UNCHANGED shardVars
    BY SchedulerAssumption
       DEF Procs, TypeInv, CancelTake, CancelMark, Close, entryVars, drrVars
  <1>2. \E l, v : Moves(k, l, v)
    BY ServesMoves DEF Serves
  <1> QED
    BY <1>1, <1>2, Untouched, ReachStays

\* The consumer's steps outside the shards, and those inside that move no shard.
LEMMA RoundReach ==
  ASSUME Grounds, TypeInv', ReachInv, NEW c \in Consumers,
         \/ Observe(c) \/ EnterTryDequeue(c) \/ NoTask(c) \/ Doze(c) \/ WakeUp(c)
  PROVE  ReachInv'
  <1> USE DEF Grounds
  <1>1. /\ c \in Procs /\ c \notin Producers /\ TypeOK
        /\ pc[c] \in {"idle", "again", "enter", "empty", "doze", "wait"}
        /\ UNCHANGED <<queue, active, ring>> /\ UNCHANGED shardVars
    BY SchedulerAssumption
       DEF Procs, TypeInv, Observe, EnterTryDequeue, NoTask, Doze, WakeUp,
           entryVars, drrVars
  <1>2. \E l \in {"enter", "pop", "closed", "idle", "doze", "again", "wait"} :
          pc' = [pc EXCEPT ![c] = l]
    BY DEF Observe, EnterTryDequeue, NoTask, Doze, WakeUp, ReturnClosed, Return, Goto
  <1>3. \E v : loc' = [loc EXCEPT ![c] = v]
    <2>1. loc' = loc => loc' = [loc EXCEPT ![c] = loc[c]]
      BY <1>1, Stay
    <2> QED
      BY <2>1, Zenon
         DEF Observe, EnterTryDequeue, NoTask, Doze, WakeUp, ReturnClosed, Return
  <1>4. PICK l, v :
          /\ l \in {"enter", "pop", "closed", "idle", "doze", "again", "wait"}
          /\ Moves(c, l, v)
    <2>1. PICK l \in {"enter", "pop", "closed", "idle", "doze", "again", "wait"} :
            pc' = [pc EXCEPT ![c] = l]
      BY <1>2
    <2>2. \E v : Moves(c, l, v)
      BY <1>3, <2>1 DEF Moves
    <2> QED
      BY <2>2
  <1> QED
    BY <1>1, <1>4, Untouched, ReachStays DEF InService

LEMMA PassReach ==
  ASSUME Grounds, TypeInv', ReachInv, NEW c \in Consumers,
         LockForDequeue(c) \/ NextLevel(c) \/ Visit(c) \/ Commit(c)
  PROVE  ReachInv'
  <1> USE DEF Grounds
  <1> DEFINE turn == [loc[c] EXCEPT !.visits = @ - 1, !.then = "weigh"]
             done == [loc[c] EXCEPT !.then = "leave"]
             gone == [loc[c] EXCEPT !.item = 0]
             seek(i, n) == [loc[c] EXCEPT !.level = i, !.visits = n]
  <1>1. /\ c \in Procs /\ c \notin Producers /\ TypeOK /\ loc[c] \in LocType
        /\ pc[c] \in {"grab", "scan", "commit"}
        /\ ring' = ring /\ UNCHANGED shardVars
    BY LocFields, SchedulerAssumption
       DEF Procs, TypeInv, LockForDequeue, NextLevel, Visit, Commit, drrVars
  <1>2. /\ turn.shard = loc[c].shard /\ turn.then = "weigh"
        /\ done.shard = loc[c].shard /\ done.then = "leave"
        /\ gone.shard = loc[c].shard
        /\ \A i, n : seek(i, n).shard = loc[c].shard
    BY <1>1 DEF LocType
  <1>3. \/ Moves(c, "leave", loc[c])
        \/ \E i, n : Moves(c, "scan", seek(i, n))
        \/ \E l \in {"weigh", "release"} : Moves(c, l, turn)
        \/ Moves(c, "release", done)
        \/ Moves(c, "scan", gone)
    <2>1. ASSUME NEW n, SeekLevel(c, n)
          PROVE  Moves(c, "leave", loc[c]) \/ \E i, k : Moves(c, "scan", seek(i, k))
      <3> DEFINE first == Front({k \in n .. 2 : ring[loc[c].shard][k] # <<>>})
                 len == Len(ring[loc[c].shard][first])
      <3>1. \/ Goto(c, "leave") /\ UNCHANGED loc
            \/ Goto(c, "scan") /\ loc' = [loc EXCEPT ![c].level = first, ![c].visits = len]
        BY <2>1 DEF SeekLevel
      <3> HIDE DEF first, len
      <3>2. loc' = [loc EXCEPT ![c].level = first, ![c].visits = len]
              => loc' = [loc EXCEPT ![c] = seek(first, len)]
        BY <1>1 DEF TypeOK
      <3>3. Goto(c, "leave") /\ UNCHANGED loc => Moves(c, "leave", loc[c])
        BY <1>1, Stay
      <3> HIDE DEF seek
      <3> QED
        BY <3>1, <3>2, <3>3 DEF Goto, Moves
    <2>2. CASE LockForDequeue(c) \/ NextLevel(c)
      <3>1. \E n : SeekLevel(c, n)
        BY <2>2 DEF LockForDequeue, NextLevel
      <3> HIDE DEF seek
      <3> QED
        BY <2>1, <3>1
    <2>3. CASE Visit(c)
      BY <2>3 DEF Visit, Goto, Moves
    <2>4. CASE Commit(c)
      BY <2>4 DEF Commit, Goto, Moves
    <2> HIDE DEF turn, done, gone, seek
    <2> QED
      BY <2>2, <2>3, <2>4
  <1>4. RingsServed'
    <2>1. CASE LockForDequeue(c) \/ NextLevel(c) \/ Commit(c)
      BY <2>1, Untouched DEF LockForDequeue, NextLevel, Commit, entryVars, drrVars
    <2>2. CASE Visit(c)
      <3>1. active' = active
        BY <2>2 DEF Visit, drrVars
      <3>2. \A t \in Tenants, i \in Prios : queue'[t][i] \subseteq queue[t][i]
        BY <2>2, VisitEffect
      <3> QED
        BY <1>1, <3>1, <3>2, RingsStay DEF ReachInv
    <2> QED
      BY <2>1, <2>2
  <1> HIDE DEF turn, done, gone, seek
  <1>5. PICK l, v :
          /\ l \in {"leave", "scan", "weigh", "release"}
          /\ Moves(c, l, v) /\ v.shard = loc[c].shard
          /\ l = "release" => v.then \in {"weigh", "leave"}
    BY <1>2, <1>3
  <1>6. Locking(c)'
    BY <1>1, <1>5, PhaseSets DEF TypeInv, Locking
  <1> QED
    BY <1>1, <1>4, <1>5, <1>6, ReachStays DEF InService

-----------------------------------------------------------------------------
(* The steps that move a shard. *)

\* A shard is put at the end of active_shards.
LEMMA ListedLast ==
  ASSUME TypeOK, NEW s \in Shards, activeShards' = Append(activeShards, s)
  PROVE  /\ \A z \in Shards \ {s} : Listed(z)' = Listed(z)
         /\ Listed(s) = {} => \E k \in DOMAIN activeShards' : Listed(s)' = {k}
         /\ DOMAIN activeShards \subseteq DOMAIN activeShards'
  <1> DEFINE n == Len(activeShards)
  <1>1. activeShards \in Seq(Shards) /\ n \in Nat
    BY DEF TypeOK, SharedOK
  <1>2. /\ DOMAIN activeShards = 1 .. n /\ DOMAIN activeShards' = 1 .. n + 1
        /\ \A k \in 1 .. n : activeShards'[k] = activeShards[k]
        /\ activeShards'[n + 1] = s
    BY <1>1
  <1> HIDE DEF n
  <1>3. \A z \in Shards : Listed(z)' = Listed(z) \cup {k \in {n + 1} : z = s}
    <2> TAKE z \in Shards
    <2>1. \A k : k \in 1 .. n + 1 <=> k \in 1 .. n \/ k = n + 1
      BY <1>1
    <2> QED
      BY <1>2, <2>1 DEF Listed
  <1>4. n + 1 \in DOMAIN activeShards'
    BY <1>1, <1>2
  <1>5. Listed(s) = {} => Listed(s)' = {n + 1}
    BY <1>3
  <1>6. \A z \in Shards \ {s} : Listed(z)' = Listed(z)
    BY <1>3
  <1>7. DOMAIN activeShards \subseteq DOMAIN activeShards'
    BY <1>1, <1>2
  <1> QED
    BY <1>4, <1>5, <1>6, <1>7

\* The first shard of active_shards is taken off.
LEMMA ListedFirst ==
  ASSUME TypeOK, activeShards # <<>>, activeShards' = Tail(activeShards),
         NEW h, h = Head(activeShards)
  PROVE  /\ h \in Shards /\ Listed(h) # {}
         /\ \A z \in Shards : Listed(z) = {} => Listed(z)' = {}
         /\ \A k : Listed(h) = {k} => Listed(h)' = {}
         /\ \A z \in Shards \ {h} :
              (\E k \in DOMAIN activeShards : Listed(z) = {k})
                => \E k \in DOMAIN activeShards' : Listed(z)' = {k}
  <1> DEFINE n == Len(activeShards)
  <1>1. activeShards \in Seq(Shards) /\ n \in Nat \ {0} /\ h = activeShards[1] /\ h \in Shards
    BY DEF TypeOK, SharedOK
  <1>2. /\ DOMAIN activeShards = 1 .. n /\ DOMAIN activeShards' = 1 .. n - 1
        /\ \A k \in 1 .. n - 1 : activeShards'[k] = activeShards[k + 1]
    BY <1>1
  <1> HIDE DEF n
  <1>3. \A z \in Shards, k \in 1 .. n - 1 : k \in Listed(z)' <=> k + 1 \in Listed(z)
    <2> TAKE z \in Shards, k \in 1 .. n - 1
    <2>1. k + 1 \in 1 .. n
      BY <1>1
    <2> QED
      BY <1>2, <2>1 DEF Listed
  <1>4. \A z \in Shards : Listed(z)' \subseteq 1 .. n - 1 /\ Listed(z) \subseteq 1 .. n
    BY <1>2 DEF Listed
  <1>5. \A z \in Shards : 1 \in Listed(z) <=> z = h
    BY <1>1, <1>2 DEF Listed
  <1>6. \A z \in Shards : Listed(z) = {} => Listed(z)' = {}
    BY <1>3, <1>4
  <1>7. ASSUME NEW k, Listed(h) = {k}
        PROVE  Listed(h)' = {}
    <2>1. k = 1
      BY <1>1, <1>5, <1>7
    <2>2. \A j \in 1 .. n - 1 : j + 1 \notin Listed(h)
      BY <1>1, <1>7, <2>1
    <2> SUFFICES ASSUME NEW j \in Listed(h)'
                 PROVE  FALSE
      OBVIOUS
    <2> QED
      BY <1>1, <1>3, <1>4, <2>2
  <1>8. ASSUME NEW z \in Shards \ {h}, NEW k \in DOMAIN activeShards, Listed(z) = {k}
        PROVE  \E j \in DOMAIN activeShards' : Listed(z)' = {j}
    <2>1. k \in 1 .. n /\ k # 1
      BY <1>2, <1>5, <1>8
    <2>2. k - 1 \in 1 .. n - 1
      BY <1>1, <2>1
    <2>3. \A j \in 1 .. n - 1 : j \in Listed(z)' <=> j = k - 1
      BY <1>1, <1>3, <1>8, <2>1
    <2>4. Listed(z)' = {k - 1}
      BY <1>4, <2>2, <2>3
    <2> QED
      BY <1>2, <2>2, <2>4
  <1> QED
    BY <1>1, <1>5, <1>6, <1>7, <1>8

\* A sequence that one element is appended to.
LEMMA Appended ==
  ASSUME NEW S, NEW r \in Seq(S), NEW e \in S, NEW new, new = Append(r, e)
  PROVE  /\ new \in Seq(S) /\ new # <<>> /\ Len(r) + 1 \in DOMAIN new /\ new[Len(r) + 1] = e
         /\ \A k \in DOMAIN r : k \in DOMAIN new /\ new[k] = r[k]
  <1>1. /\ Len(r) \in Nat /\ DOMAIN r = 1 .. Len(r)
        /\ new \in Seq(S) /\ Len(new) = Len(r) + 1 /\ DOMAIN new = 1 .. Len(r) + 1
        /\ \A k \in 1 .. Len(r) : new[k] = r[k]
        /\ new[Len(r) + 1] = e
    OBVIOUS
  <1> QED
    BY <1>1

\* A tenant is put at the end of a ring.
LEMMA RingAppended ==
  ASSUME TypeOK, NEW t \in Tenants, NEW i \in Prios,
         ring' = [ring EXCEPT ![ShardOf(t)][i] = Append(@, t)]
  PROVE  /\ InRing(t, i)' /\ HasWork(ShardOf(t))'
         /\ \A z \in Tenants, j \in Prios : InRing(z, j) => InRing(z, j)'
         /\ \A s \in Shards \ {ShardOf(t)} : HasWork(s)' <=> HasWork(s)
  <1> DEFINE s == ShardOf(t)
             new == Append(ring[s][i], t)
  <1>1. ring \in [Shards -> [Prios -> Seq(Tenants)]] /\ s \in Shards
    BY ShardOfType DEF TypeOK, SharedOK
  <1>2. /\ ring[s][i] \in Seq(Tenants) /\ new # <<>> /\ new[Len(ring[s][i]) + 1] = t
        /\ Len(ring[s][i]) + 1 \in DOMAIN new
        /\ \A k \in DOMAIN ring[s][i] : k \in DOMAIN new /\ new[k] = ring[s][i][k]
    <2>1. PICK r \in Seq(Tenants) : r = ring[s][i]
      BY <1>1
    <2>2. new = Append(r, t)
      BY <2>1
    <2> HIDE DEF new
    <2>3. /\ new # <<>> /\ Len(r) + 1 \in DOMAIN new /\ new[Len(r) + 1] = t
          /\ \A k \in DOMAIN r : k \in DOMAIN new /\ new[k] = r[k]
      BY <2>2, Appended
    <2> QED
      BY <2>1, <2>3
  <1>3. \A z \in Shards, j \in Prios :
          ring'[z][j] = IF z = s /\ j = i THEN new ELSE ring[z][j]
    BY <1>1
  <1> HIDE DEF new
  <1>4. \A z \in Tenants : ShardOf(z)' = ShardOf(z) /\ ShardOf(z) \in Shards
    BY ShardOfType DEF ShardOf
  <1>5. InRing(t, i)'
    BY <1>1, <1>2, <1>3, <1>4 DEF InRing
  <1>6. HasWork(ShardOf(t))'
    BY <1>1, <1>2, <1>3, <1>4 DEF HasWork
  <1>7. \A z \in Tenants, j \in Prios : InRing(z, j) => InRing(z, j)'
    <2> SUFFICES ASSUME NEW z \in Tenants, NEW j \in Prios, InRing(z, j)
                 PROVE  InRing(z, j)'
      OBVIOUS
    <2>1. PICK k \in DOMAIN ring[ShardOf(z)][j] : ring[ShardOf(z)][j][k] = z
      BY DEF InRing
    <2>2. k \in DOMAIN ring'[ShardOf(z)][j] /\ ring'[ShardOf(z)][j][k] = z
      BY <1>2, <1>3, <1>4, <2>1
    <2> QED
      BY <1>4, <2>2 DEF InRing
  <1>8. \A z \in Shards \ {s} : HasWork(z)' <=> HasWork(z)
    BY <1>3 DEF HasWork
  <1> QED
    BY <1>5, <1>6, <1>7, <1>8

\* A tenant in a ring is work for its shard.
LEMMA RingIsWork ==
  ASSUME TypeOK, NEW t \in Tenants, NEW i \in Prios, InRing(t, i)
  PROVE  HasWork(ShardOf(t))
  <1>1. ring[ShardOf(t)][i] \in Seq(Tenants)
    BY ShardOfType DEF TypeOK, SharedOK
  <1>2. ring[ShardOf(t)][i] # <<>>
    BY <1>1 DEF InRing
  <1> QED
    BY <1>2 DEF HasWork

\* A producer inside a shard that was idle finds it nowhere: no consumer can be
\* inside as well.
LEMMA IdleNowhere ==
  ASSUME TypeInv, ReachInv, NEW p \in Producers, Locking(p),
         NEW s \in Shards, s = JobShard(p), ~HasWork(s)
  PROVE  /\ Listed(s) = {} /\ Serving(s) = {} /\ Waking(s) = {} /\ ~shardActive[s]
  <1> SUFFICES ASSUME NEW c \in Consumers, Serving(s) = {c}, Locking(c)
               PROVE  FALSE
    BY DEF ReachInv, ShardReached
  <1>1. p \in Procs /\ c \in Procs /\ c \notin Producers
    BY SchedulerAssumption DEF Procs
  <1>2. HeldShard(p) = s /\ HeldShard(c) = s
    BY <1>1 DEF HeldShard, Serving
  <1>3. p = c
    BY <1>1, <1>2, Alone
  <1> QED
    BY <1>1, <1>3

\* A push into an idle shard makes the producer the one that wakes it.
LEMMA PushReach ==
  ASSUME Grounds, TypeInv', ReachInv, NEW p \in Producers, Push(p)
  PROVE  ReachInv'
  <1> USE DEF Grounds
  <1>0. PICK t \in Tenants, i \in Prios : t = loc[p].job.tenant /\ i = loc[p].job.prio
    BY LocFields DEF TypeInv, Procs
  <1> DEFINE x == Len(task) + 1
             w == [loc[p] EXCEPT !.item = x, !.signal = MustNotify(queue[t][i]), !.then = "idle"]
  <1>1. /\ p \in Procs /\ p \notin Consumers /\ pc[p] = "push" /\ TypeOK /\ Locking(p)
        /\ UNCHANGED shardVars
        /\ active \in [Tenants -> [Prios -> BOOLEAN]]
    BY SchedulerAssumption DEF Push, TypeInv, TypeOK, SharedOK, Procs, Locking
  <1>2. PICK s \in Shards : s = ShardOf(t) /\ s = JobShard(p) /\ s = HeldShard(p)
    BY <1>0, ShardOfType DEF JobShard, HeldShard
  <1>3. \A z \in Tenants, j \in Prios :
          queue'[z][j] = IF z = t /\ j = i THEN queue[z][j] \cup {x} ELSE queue[z][j]
    <2>1. \A z \in Tenants, j \in Prios :
            queue'[z][j] = IF z = loc[p].job.tenant /\ j = loc[p].job.prio
                           THEN queue[z][j] \cup {x} ELSE queue[z][j]
      BY PushEffect
    <2> QED
      BY <1>0, <2>1
  <1>4. /\ active' = [active EXCEPT ![t][i] = @ \/ queue[t][i] = {}]
        /\ ring' = IF queue[t][i] = {} /\ ~active[t][i]
                   THEN [ring EXCEPT ![ShardOf(t)][i] = Append(@, t)] ELSE ring
    BY <1>0 DEF Push
  <1>5. \/ loc[p].wasIdle /\ Moves(p, "activate", w)
        \/ ~loc[p].wasIdle /\ \E l \in {"notify", "idle"} : \E v : Moves(p, l, v)
    BY <1>0 DEF Push, Goto, Return, Moves
  <1>6. w.job = loc[p].job /\ w.then = "idle"
    BY <1>1 DEF TypeOK, LocType
  <1>7. \E l \in {"idle", "activate", "notify"} : \E v : Moves(p, l, v) /\ v.then = "idle"
    BY PushEffect
  <1>8. ~Locking(p)'
    BY <1>1, <1>7, PhaseSets DEF TypeInv, Locking
  <1> HIDE DEF x, w
  <1>9. \A z \in Tenants, j \in Prios :
          active'[z][j] <=> active[z][j] \/ (z = t /\ j = i /\ queue[t][i] = {})
    BY <1>1, <1>4
  <1>10. /\ InRing(t, i)' /\ HasWork(s)'
         /\ \A z \in Tenants, j \in Prios : InRing(z, j) => InRing(z, j)'
         /\ \A z \in Shards \ {s} : HasWork(z)' <=> HasWork(z)
    <2>1. CASE queue[t][i] = {} /\ ~active[t][i]
      <3>1. /\ InRing(t, i)' /\ HasWork(ShardOf(t))'
            /\ \A z \in Tenants, j \in Prios : InRing(z, j) => InRing(z, j)'
            /\ \A z \in Shards \ {ShardOf(t)} : HasWork(z)' <=> HasWork(z)
        BY <1>1, <1>4, <2>1, RingAppended
      <3> QED
        BY <1>2, <3>1 DEF HasWork
    <2>2. CASE ~(queue[t][i] = {} /\ ~active[t][i])
      <3>1. ring' = ring /\ active[t][i]
        BY <1>1, <1>4, <2>2 DEF ReachInv, RingsServed
      <3>2. InRing(t, i)
        BY <3>1 DEF ReachInv, RingsServed
      <3>3. HasWork(s)
        BY <1>1, <1>2, <3>2, RingIsWork
      <3> QED
        BY <3>1, <3>2, <3>3 DEF InRing, HasWork
    <2> QED
      BY <2>1, <2>2
  <1>11. RingsServed'
    <2> SUFFICES ASSUME NEW z \in Tenants, NEW j \in Prios
                 PROVE  /\ queue'[z][j] # {} => active'[z][j]
                        /\ active'[z][j] => InRing(z, j)'
      BY DEF RingsServed
    <2>1. queue'[z][j] # {} => active'[z][j]
      <3>1. queue[z][j] # {} => active[z][j]
        BY DEF ReachInv, RingsServed
      <3>2. CASE z = t /\ j = i
        <4>1. active'[z][j] <=> active[z][j] \/ queue[z][j] = {}
          BY <1>9, <3>2
        <4> QED
          BY <3>1, <4>1
      <3>3. CASE z # t \/ j # i
        <4>1. queue'[z][j] = queue[z][j]
          BY <1>3, <3>3
        <4>2. active'[z][j] <=> active[z][j]
          BY <1>9, <3>3
        <4> QED
          BY <3>1, <4>1, <4>2
      <3> QED
        BY <3>2, <3>3
    <2>2. CASE z = t /\ j = i
      <3>1. InRing(z, j)'
        BY <1>10, <2>2 DEF InRing
      <3> QED
        BY <2>1, <3>1
    <2>3. CASE ~(z = t /\ j = i)
      BY <1>9, <1>10, <2>1, <2>3 DEF ReachInv, RingsServed
    <2> QED
      BY <2>2, <2>3
  <1>12. PICK l, v :
           /\ l \in {"idle", "activate", "notify"}
           /\ Moves(p, l, v)
           /\ l = "activate" => loc[p].wasIdle /\ v.job = loc[p].job
           /\ l # "activate" => ~loc[p].wasIdle
    BY <1>5, <1>6
  <1>13. IdleKnown'
    BY <1>1, <1>2, <1>8, <1>10, <1>12, StillKnown DEF ReachInv
  <1>14. ServiceHeld'
    BY <1>1, <1>12, PhaseSets DEF TypeInv, ReachInv, ServiceHeld, Procs
  <1>15. ASSUME NEW z \in Shards
         PROVE  ShardReached(z)'
    <2>1. /\ Listed(z)' = Listed(z) /\ Serving(z)' = Serving(z)
          /\ Waking(z)' = IF s = z /\ l = "activate" THEN Waking(z) \cup {p} ELSE Waking(z) \ {p}
          /\ activeShards' = activeShards /\ shardActive'[z] = shardActive[z]
          /\ p \notin Waking(z)
      <3>1. l \in InWake <=> l = "activate"
        BY <1>12 DEF InWake
      <3>2. activeShards' = activeShards /\ shardActive' = shardActive
        BY <1>1 DEF shardVars
      <3>3. l = "activate" => ShardOf(v.job.tenant) = s
        BY <1>0, <1>2, <1>12
      <3>4. p \notin Waking(z)
        BY <1>1 DEF Waking
      <3> QED
        BY <1>1, <1>12, <3>1, <3>2, <3>3, <3>4, PlacesMoved
    <2>2. ShardReached(z) /\ (loc[p].wasIdle <=> ~HasWork(s))
      BY <1>1, <1>2 DEF ReachInv, IdleKnown
    <2>3. CASE z = s /\ l = "activate"
      <3>1. Listed(z) = {} /\ Serving(z) = {} /\ Waking(z) = {} /\ ~shardActive[z]
        BY <1>1, <1>2, <1>12, <2>2, <2>3, IdleNowhere
      <3>2. Listed(z)' = {} /\ Serving(z)' = {} /\ Waking(z)' = {p} /\ ~shardActive'[z]
        BY <2>1, <2>3, <3>1
      <3>3. pc'[p] # "publish" /\ HasWork(z)'
        BY <1>1, <1>10, <1>12, <2>3, PhaseSets DEF TypeInv
      <3> QED
        BY <3>2, <3>3 DEF ShardReached
    <2>4. CASE ~(z = s /\ l = "activate")
      <3>1. HasWork(z)' <=> HasWork(z)
        BY <1>10, <1>12, <2>2, <2>4
      <3>2. Listed(z)' = Listed(z) /\ Serving(z)' = Serving(z) /\ Waking(z)' = Waking(z)
        BY <2>1, <2>4
      <3>3. \A q \in Procs \ {p} : pc'[q] = pc[q] /\ loc'[q] = loc[q]
        BY <1>1, <1>12, PhaseSets DEF TypeInv
      <3>4. \A c \in Consumers : Locking(c)' <=> Locking(c)
        BY <1>1, <3>3 DEF Locking, Procs
      <3>5. \A q \in Producers : q \in Waking(z) => pc'[q] = pc[q]
        BY <2>1, <3>3 DEF Procs
      <3> QED
        BY <2>1, <2>2, <3>1, <3>2, <3>4, <3>5 DEF ShardReached
    <2> QED
      BY <2>3, <2>4
  <1> QED
    BY <1>11, <1>13, <1>14, <1>15 DEF ReachInv

\* The rest of the lock-free steps of a producer: the shard is marked active,
\* then listed.
LEMMA WakeReach ==
  ASSUME Grounds, TypeInv', ReachInv, NEW p \in Producers, Activate(p) \/ Publish(p)
  PROVE  ReachInv'
  <1> USE DEF Grounds
  <1>1. /\ p \in Procs /\ p \notin Consumers /\ TypeOK
        /\ pc[p] \in InWake /\ ~Locking(p)
        /\ UNCHANGED <<queue, active, ring>>
        /\ shardActive \in [Shards -> BOOLEAN]
    BY SchedulerAssumption
       DEF Procs, TypeInv, TypeOK, SharedOK, Activate, Publish, Locking, InWake,
           entryVars, drrVars
  <1>2. PICK s \in Shards : s = JobShard(p)
    BY <1>1, LocFields
  <1>3. loc[p].then = "idle" /\ Fresh.then = "idle"
    BY <1>1, FreshType DEF TypeInv, LocalsSet, InWake
  <1>4. /\ Listed(s) = {} /\ Serving(s) = {} /\ Waking(s) = {p} /\ HasWork(s)
        /\ shardActive[s] <=> pc[p] = "publish"
    <2>1. p \in Waking(s) /\ ShardReached(s)
      BY <1>1, <1>2 DEF Waking, InWake, ReachInv
    <2> QED
      BY <2>1 DEF ShardReached
  <1>5. \/ /\ Activate(p) /\ Moves(p, "publish", loc[p])
           /\ shardActive' = [shardActive EXCEPT ![s] = TRUE] /\ activeShards' = activeShards
        \/ /\ Publish(p) /\ \E l \in {"notify", "idle"}, v \in {loc[p], Fresh} : Moves(p, l, v)
           /\ shardActive' = shardActive /\ activeShards' = Append(activeShards, s)
    <2>1. CASE Activate(p)
      BY <1>1, <1>2, <1>4, <2>1, Stay DEF Activate
    <2>2. CASE Publish(p)
      BY <1>1, <1>2, <2>2, Stay DEF Publish, AfterActivation
    <2> QED
      BY <2>1, <2>2
  <1>6. PICK l \in {"publish", "notify", "idle"}, v \in {loc[p], Fresh} :
          /\ Moves(p, l, v)
          /\ \/ /\ l = "publish" /\ v = loc[p]
                /\ shardActive' = [shardActive EXCEPT ![s] = TRUE] /\ activeShards' = activeShards
             \/ /\ l # "publish"
                /\ shardActive' = shardActive /\ activeShards' = Append(activeShards, s)
    BY <1>5
  <1>7. pc'[p] = l /\ ~Locking(p)' /\ TypeOK'
    BY <1>1, <1>3, <1>6, PhaseSets DEF TypeInv, Locking
  <1>8. \A z : HasWork(z)' <=> HasWork(z)
    BY <1>1 DEF HasWork
  <1>9. IdleKnown'
    BY <1>1, <1>6, <1>7, <1>8, StillKnown DEF ReachInv
  <1>10. ServiceHeld' /\ RingsServed'
    BY <1>1, <1>6, PhaseSets, Untouched DEF TypeInv, ReachInv, ServiceHeld, Procs
  <1>11. ASSUME NEW z \in Shards, z # s
         PROVE  ShardReached(z)'
    <2>1. Listed(z)' = Listed(z) /\ DOMAIN activeShards \subseteq DOMAIN activeShards'
      BY <1>1, <1>6, <1>11, ListedLast DEF Listed
    <2>2. shardActive'[z] = shardActive[z] /\ Serving(z)' = Serving(z)
      BY <1>1, <1>6, <1>11, PlacesMoved
    <2>3. p \notin Waking(z)
      BY <1>2, <1>11 DEF Waking
    <2>4. Waking(z)' = Waking(z)
      <3>1. l = "publish" => ShardOf(v.job.tenant) # z
        BY <1>2, <1>6, <1>11 DEF JobShard
      <3>2. l # "publish" => l \notin InWake
        BY DEF InWake
      <3> QED
        BY <1>1, <1>6, <2>3, <3>1, <3>2, PlacesMoved
    <2>5. /\ \A c \in Consumers : Locking(c)' <=> Locking(c)
          /\ \A q \in Producers : q \in Waking(z) => pc'[q] = pc[q]
      <3>1. \A q \in Procs \ {p} : pc'[q] = pc[q] /\ loc'[q] = loc[q]
        BY <1>1, <1>6, PhaseSets DEF TypeInv
      <3> QED
        BY <1>1, <2>3, <3>1 DEF Locking, Procs
    <2> QED
      BY <1>8, <2>1, <2>2, <2>4, <2>5 DEF ShardReached, ReachInv
  <1>12. ShardReached(s)'
    <2>1. Serving(s)' = {} /\ HasWork(s)'
      BY <1>1, <1>4, <1>6, <1>8, PlacesMoved
    <2>2. CASE l = "publish"
      <3>1. Waking(s)' = {p}
        BY <1>1, <1>2, <1>4, <1>6, <2>2, PlacesMoved DEF InWake, JobShard
      <3>2. Listed(s)' = {} /\ shardActive'[s]
        BY <1>1, <1>4, <1>6, <2>2 DEF Listed
      <3> QED
        BY <1>7, <2>1, <2>2, <3>1, <3>2 DEF ShardReached
    <2>3. CASE l # "publish"
      <3>1. Waking(s)' = {}
        BY <1>1, <1>4, <1>6, <2>3, PlacesMoved DEF InWake
      <3>2. (\E k \in DOMAIN activeShards' : Listed(s)' = {k}) /\ shardActive'[s]
        BY <1>1, <1>4, <1>5, <1>6, <2>3, ListedLast DEF InWake, Publish, Activate
      <3> QED
        BY <2>1, <3>1, <3>2 DEF ShardReached
    <2> QED
      BY <2>2, <2>3
  <1> QED
    BY <1>9, <1>10, <1>11, <1>12 DEF ReachInv

\* A consumer that keeps its shard while the rings change under its lock, or
\* gives it up: what every step of one that moves a shard has in common.
LEMMA ConsumerReach ==
  ASSUME Grounds, TypeInv', ReachInv, NEW c \in Consumers, NEW l, NEW v, Moves(c, l, v),
         RingsServed', NEW s \in Shards,
         \A z \in Shards : \/ HasWork(z)' <=> HasWork(z)
                           \/ Locking(c) /\ HeldShard(c) = z /\ z = s,
         l \in {"release", "notify"} => v.then \in {"weigh", "leave"},
         pc[c] \in InService => loc[c].shard = s,
         l \in InService => v.shard = s,
         \A z \in Shards \ {s} :
           /\ shardActive'[z] = shardActive[z]
           /\ Listed(z) = {} => Listed(z)' = {}
           /\ (\E k \in DOMAIN activeShards : Listed(z) = {k})
                => \E k \in DOMAIN activeShards' : Listed(z)' = {k},
         ShardReached(s)'
  PROVE  ReachInv'
  <1> USE DEF Grounds
  <1>1. c \in Procs /\ c \notin Producers /\ TypeOK /\ TypeOK'
    BY SchedulerAssumption DEF TypeInv, Procs
  <1>2. IdleKnown'
    BY <1>1, StillKnown DEF ReachInv
  <1>3. ServiceHeld'
    BY <1>1, PhaseSets DEF ReachInv, ServiceHeld, Procs
  <1>4. ASSUME NEW z \in Shards \ {s}
        PROVE  ShardReached(z)'
    <2>1. c \notin Serving(z) /\ ~(l \in InService /\ v.shard = z)
      BY <1>4 DEF Serving, InService
    <2>2. (HasWork(z)' <=> HasWork(z)) /\ ShardReached(z)
      BY <1>4 DEF ReachInv
    <2> QED
      BY <1>1, <1>4, <2>1, <2>2, InPlace
  <1> QED
    BY <1>2, <1>3, <1>4 DEF ReachInv

\* A consumer takes the first shard of active_shards.
LEMMA PopReach ==
  ASSUME Grounds, TypeInv', ReachInv, NEW c \in Consumers, PopShard(c)
  PROVE  ReachInv'
  <1> USE DEF Grounds
  <1>1. /\ c \in Procs /\ c \notin Producers /\ TypeOK /\ pc[c] = "pop"
        /\ UNCHANGED <<queue, active, ring>> /\ shardActive' = shardActive
    BY SchedulerAssumption DEF Procs, TypeInv, PopShard, entryVars, drrVars
  <1>2. CASE loc[c].left = 0 \/ activeShards = <<>>
    <2>1. Moves(c, "empty", loc[c]) /\ UNCHANGED shardVars
      BY <1>1, <1>2, Stay DEF PopShard, shardVars
    <2> QED
      BY <1>1, <2>1, Untouched, ReachStays DEF InService
  <1>3. CASE ~(loc[c].left = 0 \/ activeShards = <<>>)
    <2> DEFINE w == [loc[c] EXCEPT !.shard = Head(activeShards), !.left = @ - 1]
    <2>1. PICK s \in Shards : s = Head(activeShards)
      BY <1>1, <1>3 DEF TypeOK, SharedOK
    <2>2. /\ Moves(c, "grab", w) /\ activeShards' = Tail(activeShards)
          /\ activeShards # <<>>
      BY <1>3 DEF PopShard, Goto, Moves
    <2>3. w.shard = s
      BY <1>1, <2>1 DEF TypeOK, LocType
    <2> HIDE DEF w
    <2>4. /\ Listed(s) # {}
          /\ \A k : Listed(s) = {k} => Listed(s)' = {}
          /\ \A z \in Shards : Listed(z) = {} => Listed(z)' = {}
          /\ \A z \in Shards \ {s} :
               (\E k \in DOMAIN activeShards : Listed(z) = {k})
                 => \E k \in DOMAIN activeShards' : Listed(z)' = {k}
      BY <1>1, <2>1, <2>2, ListedFirst
    <2>5. /\ \E k : Listed(s) = {k}
          /\ Serving(s) = {} /\ Waking(s) = {} /\ HasWork(s) /\ shardActive[s]
      BY <2>4 DEF ReachInv, ShardReached
    <2>6. Serving(s)' = {c} /\ Waking(s)' = {} /\ Listed(s)' = {}
      BY <1>1, <2>2, <2>3, <2>4, <2>5, PlacesMoved DEF InService
    <2>7. \A z : HasWork(z)' <=> HasWork(z)
      BY <1>1 DEF HasWork
    <2>8. ShardReached(s)'
      BY <1>1, <2>5, <2>6, <2>7 DEF ShardReached
    <2>9. RingsServed'
      BY <1>1, Untouched
    <2>10. \A z \in Shards \ {s} :
           /\ shardActive'[z] = shardActive[z]
           /\ Listed(z) = {} => Listed(z)' = {}
           /\ (\E k \in DOMAIN activeShards : Listed(z) = {k})
                => \E k \in DOMAIN activeShards' : Listed(z)' = {k}
      BY <1>1, <2>4
    <2>11. pc[c] \notin InService
      BY <1>1 DEF InService
    <2>12. PICK l, v : l \in {"grab"} /\ Moves(c, l, v) /\ v.shard = s
      BY <2>2, <2>3
    <2> QED
      BY <2>7, <2>8, <2>9, <2>10, <2>11, <2>12, ConsumerReach
  <1> QED
    BY <1>2, <1>3

\* The shard is left: kept for the put back, or forgotten when it has no work.
LEMMA LeaveReach ==
  ASSUME Grounds, TypeInv', ReachInv, NEW c \in Consumers, LeaveShard(c) \/ PutBackShard(c)
  PROVE  ReachInv'
  <1> USE DEF Grounds
  <1> DEFINE w == [Fresh EXCEPT !.left = loc[c].left]
  <1>1. /\ c \in Procs /\ c \notin Producers /\ TypeOK /\ pc[c] \in {"leave", "putback"}
        /\ UNCHANGED <<queue, active, ring>>
        /\ shardActive \in [Shards -> BOOLEAN]
    BY SchedulerAssumption
       DEF Procs, TypeInv, TypeOK, SharedOK, LeaveShard, PutBackShard, entryVars, drrVars
  <1>2. PICK s \in Shards : s = loc[c].shard
    BY <1>1, LocFields
  <1>3. \A z : HasWork(z)' <=> HasWork(z)
    BY <1>1 DEF HasWork
  <1>4. RingsServed'
    BY <1>1, Untouched
  <1>5. c \in Serving(s) /\ ShardReached(s)
    BY <1>1, <1>2 DEF Serving, ReachInv
  <1>6. /\ Listed(s) = {} /\ Serving(s) = {c} /\ Waking(s) = {}
        /\ HasWork(s) \/ Locking(c)
        /\ shardActive[s]
    BY <1>5 DEF ShardReached
  <1>7. \/ LeaveShard(c) /\ HasWork(s) /\ Moves(c, "putback", loc[c]) /\ UNCHANGED shardVars
        \/ /\ LeaveShard(c) /\ ~HasWork(s) /\ activeShards' = activeShards
           /\ shardActive' = [shardActive EXCEPT ![s] = FALSE]
           /\ Moves(c, "idle", Fresh) \/ Moves(c, "pop", w)
        \/ /\ PutBackShard(c) /\ pc[c] = "putback"
           /\ activeShards' = Append(activeShards, s) /\ shardActive' = shardActive
           /\ Moves(c, "idle", Fresh) \/ Moves(c, "pop", w)
    <2>1. CASE LeaveShard(c)
      BY <1>1, <1>2, <2>1, Stay DEF LeaveShard, ReturnOrGoOn, shardVars, Goto, Return, Moves
    <2>2. CASE PutBackShard(c)
      BY <1>1, <1>2, <2>2 DEF PutBackShard, ReturnOrGoOn, Goto, Return, Moves
    <2> QED
      BY <2>1, <2>2
  <1> HIDE DEF w
  <1>8. CASE LeaveShard(c) /\ HasWork(s) /\ Moves(c, "putback", loc[c]) /\ UNCHANGED shardVars
    <2>1. ring' = ring /\ HasWork(loc[c].shard)
      BY <1>1, <1>2, <1>8
    <2> QED
      BY <1>1, <1>4, <1>8, <2>1, ReachStays DEF InService
  <1>9. CASE /\ LeaveShard(c) /\ ~HasWork(s) /\ activeShards' = activeShards
             /\ shardActive' = [shardActive EXCEPT ![s] = FALSE]
             /\ Moves(c, "idle", Fresh) \/ Moves(c, "pop", w)
    <2>1. PICK l \in {"idle", "pop"}, v \in {Fresh, w} : Moves(c, l, v)
      BY <1>9
    <2>2. Serving(s)' = {} /\ Waking(s)' = {} /\ Listed(s)' = {}
      BY <1>1, <1>6, <1>9, <2>1, PlacesMoved DEF InService
    <2>3. ShardReached(s)'
      BY <1>1, <1>3, <1>9, <2>2 DEF ShardReached
    <2>4. \A z \in Shards : Listed(z)' = Listed(z)
      BY <1>9 DEF Listed
    <2>5. \A z \in Shards \ {s} :
           /\ shardActive'[z] = shardActive[z]
           /\ Listed(z) = {} => Listed(z)' = {}
           /\ (\E k \in DOMAIN activeShards : Listed(z) = {k})
                => \E k \in DOMAIN activeShards' : Listed(z)' = {k}
      BY <1>1, <1>9, <2>4
    <2> QED
      BY <1>1, <1>2, <1>3, <1>4, <2>1, <2>3, <2>5, ConsumerReach DEF InService
  <1>10. CASE /\ PutBackShard(c) /\ pc[c] = "putback"
              /\ activeShards' = Append(activeShards, s) /\ shardActive' = shardActive
              /\ Moves(c, "idle", Fresh) \/ Moves(c, "pop", w)
    <2>1. PICK l \in {"idle", "pop"}, v \in {Fresh, w} : Moves(c, l, v)
      BY <1>10
    <2>2. HasWork(s)
      BY <1>6, <1>10 DEF Locking
    <2>3. /\ \A z \in Shards \ {s} : Listed(z)' = Listed(z)
          /\ \E k \in DOMAIN activeShards' : Listed(s)' = {k}
          /\ DOMAIN activeShards \subseteq DOMAIN activeShards'
      BY <1>1, <1>6, <1>10, ListedLast
    <2>4. Serving(s)' = {} /\ Waking(s)' = {}
      BY <1>1, <1>6, <2>1, PlacesMoved DEF InService
    <2>5. ShardReached(s)'
      BY <1>3, <1>6, <1>10, <2>2, <2>3, <2>4 DEF ShardReached
    <2> QED
      BY <1>1, <1>2, <1>3, <1>4, <1>10, <2>1, <2>3, <2>5, ConsumerReach DEF InService
  <1> QED
    BY <1>7, <1>8, <1>9, <1>10

\* The turn of a ring loses no tenant but the one at its head.
LEMMA TurnKeeps ==
  ASSUME NEW S, NEW r \in Seq(S), r # <<>>,
         NEW new \in {Tail(r), Append(Tail(r), Head(r))}
  PROVE  /\ \A k \in DOMAIN r : r[k] # Head(r) => \E j \in DOMAIN new : new[j] = r[k]
         /\ new = Append(Tail(r), Head(r)) => \E j \in DOMAIN new : new[j] = Head(r)
  <1>1. /\ Len(r) \in Nat \ {0} /\ DOMAIN r = 1 .. Len(r) /\ Head(r) = r[1] /\ Head(r) \in S
        /\ Tail(r) \in Seq(S) /\ Len(Tail(r)) = Len(r) - 1
        /\ DOMAIN Tail(r) = 1 .. Len(r) - 1
        /\ \A k \in 1 .. Len(r) - 1 : Tail(r)[k] = r[k + 1]
    OBVIOUS
  <1>2. \A k \in DOMAIN Tail(r) : k \in DOMAIN new /\ new[k] = Tail(r)[k]
    BY <1>1, Appended
  <1>3. ASSUME NEW k \in DOMAIN r, r[k] # Head(r)
        PROVE  \E j \in DOMAIN new : new[j] = r[k]
    <2>1. k - 1 \in DOMAIN Tail(r) /\ Tail(r)[k - 1] = r[k]
      BY <1>1, <1>3
    <2> QED
      BY <1>2, <2>1
  <1>4. new = Append(Tail(r), Head(r)) => \E j \in DOMAIN new : new[j] = Head(r)
    BY <1>1, Appended
  <1> QED
    BY <1>3, <1>4

\* A visit turns the ring: a tenant leaves it only with its last entry.
LEMMA WeighReach ==
  ASSUME Grounds, TypeInv', ReachInv, NEW c \in Consumers, Weigh(c)
  PROVE  ReachInv'
  <1> USE DEF Grounds
  <1>1. /\ c \in Procs /\ c \notin Producers /\ TypeOK /\ pc[c] = "weigh"
        /\ UNCHANGED shardVars
        /\ ring \in [Shards -> [Prios -> Seq(Tenants)]]
        /\ active \in [Tenants -> [Prios -> BOOLEAN]]
        /\ queue \in [Tenants -> [Prios -> SUBSET DOMAIN task]]
    BY SchedulerAssumption DEF Procs, TypeInv, TypeOK, SharedOK, Weigh
  <1>2. PICK s \in Shards, i \in Prios : s = loc[c].shard /\ i = loc[c].level
    BY <1>1, LocFields
  <1>3. PICK t \in Tenants : t = Head(ring[s][i]) /\ s = ShardOf(t)
    BY <1>1, <1>2, AtTheRing
  <1>4. ring[s][i] \in Seq(Tenants) /\ ring[s][i] # <<>> /\ Locking(c) /\ HeldShard(c) = s
    BY <1>1, <1>2, AtTheRing
  <1> DEFINE x == Front(queue[t][i])
             w == [loc[c] EXCEPT !.item = x]
             turned == Append(Tail(ring[s][i]), t)
  <1>5. /\ \E l \in {"scan", "commit"}, v \in {loc[c], w} : Moves(c, l, v)
        /\ \/ queue' = queue
           \/ queue' = [queue EXCEPT ![t][i] = @ \ {x}]
        /\ \/ /\ ring' = [ring EXCEPT ![s][i] = turned]
              /\ active' = active /\ queue[t][i] # {}
           \/ /\ ring' = [ring EXCEPT ![s][i] = Tail(ring[s][i])]
              /\ active' = [active EXCEPT ![t][i] = FALSE]
              /\ queue[t][i] = {} \/ queue' = [queue EXCEPT ![t][i] = @ \ queue[t][i]]
    BY <1>1, <1>2, <1>3, Stay DEF Weigh, Goto, Moves
  <1>6. w.shard = s
    BY <1>1, <1>2 DEF TypeOK, LocType
  <1> HIDE DEF x, w
  <1>7. PICK new \in {Tail(ring[s][i]), turned} :
          /\ \A z \in Shards, j \in Prios :
               ring'[z][j] = IF z = s /\ j = i THEN new ELSE ring[z][j]
          /\ \/ new = turned /\ active' = active
             \/ /\ \A z \in Tenants, j \in Prios :
                     active'[z][j] <=> active[z][j] /\ ~(z = t /\ j = i)
                /\ queue'[t][i] = {}
    <2>1. CASE ring' = [ring EXCEPT ![s][i] = turned] /\ active' = active
      BY <1>1, <2>1
    <2>2. CASE /\ ring' = [ring EXCEPT ![s][i] = Tail(ring[s][i])]
               /\ active' = [active EXCEPT ![t][i] = FALSE]
               /\ queue[t][i] = {} \/ queue' = [queue EXCEPT ![t][i] = @ \ queue[t][i]]
      <3>1. queue'[t][i] = {}
        BY <1>1, <1>5, <2>2
      <3>2. \A z \in Tenants, j \in Prios :
                     active'[z][j] <=> active[z][j] /\ ~(z = t /\ j = i)
        BY <1>1, <2>2
      <3>3. \A z \in Shards, j \in Prios :
               ring'[z][j] = IF z = s /\ j = i THEN Tail(ring[s][i]) ELSE ring[z][j]
        BY <1>1, <2>2
      <3> QED
        BY <3>1, <3>2, <3>3
    <2> QED
      BY <1>5, <2>1, <2>2
  <1>8. /\ \A k \in DOMAIN ring[s][i] : ring[s][i][k] # t => \E j \in DOMAIN new : new[j] = ring[s][i][k]
        /\ new = turned => \E j \in DOMAIN new : new[j] = t
    <2>1. PICK r \in Seq(Tenants) : r = ring[s][i] /\ r # <<>>
      BY <1>4
    <2>2. new \in {Tail(r), Append(Tail(r), Head(r))} /\ turned = Append(Tail(r), Head(r))
      BY <1>3, <1>7, <2>1
    <2>3. /\ \A k \in DOMAIN r : r[k] # Head(r) => \E j \in DOMAIN new : new[j] = r[k]
          /\ new = Append(Tail(r), Head(r)) => \E j \in DOMAIN new : new[j] = Head(r)
      BY <2>1, <2>2, TurnKeeps
    <2> HIDE DEF turned
    <2> QED
      BY <1>3, <2>1, <2>2, <2>3
  <1> HIDE DEF turned
  <1>9. \A z \in Tenants : ShardOf(z)' = ShardOf(z) /\ ShardOf(z) \in Shards
    BY ShardOfType DEF ShardOf
  <1>10. \A z \in Tenants, j \in Prios : queue'[z][j] \subseteq queue[z][j]
    <2>1. CASE queue' = queue
      BY <2>1
    <2>2. CASE queue' = [queue EXCEPT ![t][i] = @ \ {x}]
      <3>1. \A z \in Tenants, j \in Prios :
              queue'[z][j] = IF z = t /\ j = i THEN queue[z][j] \ {x} ELSE queue[z][j]
        BY <1>1, <2>2
      <3> QED
        BY <3>1
    <2> QED
      BY <1>5, <2>1, <2>2
  <1>11. \A z \in Tenants, j \in Prios :
           InRing(z, j) /\ (~(z = t /\ j = i) \/ new = turned) => InRing(z, j)'
    <2> SUFFICES ASSUME NEW z \in Tenants, NEW j \in Prios, InRing(z, j),
                        ~(z = t /\ j = i) \/ new = turned
                 PROVE  \E n \in DOMAIN ring'[ShardOf(z)][j] : ring'[ShardOf(z)][j][n] = z
      BY <1>9 DEF InRing
    <2>1. PICK k \in DOMAIN ring[ShardOf(z)][j] : ring[ShardOf(z)][j][k] = z
      BY DEF InRing
    <2>2. CASE ShardOf(z) = s /\ j = i
      <3>1. \E n \in DOMAIN new : new[n] = z
        BY <1>8, <2>1, <2>2
      <3> QED
        BY <1>7, <2>2, <3>1
    <2>3. CASE ~(ShardOf(z) = s /\ j = i)
      BY <1>7, <1>9, <2>1, <2>3
    <2> QED
      BY <2>2, <2>3
  <1>12. RingsServed'
    <2> SUFFICES ASSUME NEW z \in Tenants, NEW j \in Prios
                 PROVE  /\ queue'[z][j] # {} => active'[z][j]
                        /\ active'[z][j] => InRing(z, j)'
      BY DEF RingsServed
    <2>1. (queue[z][j] # {} => active[z][j]) /\ (active[z][j] => InRing(z, j))
      BY DEF ReachInv, RingsServed
    <2>2. CASE new = turned /\ active' = active
      BY <1>10, <1>11, <2>1, <2>2
    <2>3. CASE /\ \A y \in Tenants, k \in Prios :
                     active'[y][k] <=> active[y][k] /\ ~(y = t /\ k = i)
               /\ queue'[t][i] = {}
      <3>1. queue'[z][j] # {} => queue[z][j] # {} /\ ~(z = t /\ j = i)
        BY <1>10, <2>3
      <3> QED
        BY <1>11, <2>1, <2>3, <3>1
    <2> QED
      BY <1>7, <2>2, <2>3
  <1>13. PICK l \in {"scan", "commit"}, v \in {loc[c], w} : Moves(c, l, v)
    BY <1>5
  <1>14. v.shard = s
    BY <1>2, <1>6
  <1>15. \A z \in Shards : \/ HasWork(z)' <=> HasWork(z)
                           \/ Locking(c) /\ HeldShard(c) = z /\ z = s
    <2>1. \A z \in Shards : z # s => \A j \in Prios : ring'[z][j] = ring[z][j]
      BY <1>7
    <2> QED
      BY <1>4, <2>1 DEF HasWork
  <1>16. /\ activeShards' = activeShards /\ shardActive' = shardActive
         /\ \A z \in Shards : Listed(z)' = Listed(z)
    BY <1>1 DEF shardVars, Listed
  <1>17. ShardReached(s)'
    <2>1. c \in Serving(s) /\ ShardReached(s)
      BY <1>1, <1>2 DEF Serving, ReachInv
    <2>2. Listed(s) = {} /\ Serving(s) = {c} /\ Waking(s) = {} /\ shardActive[s]
      BY <2>1 DEF ShardReached
    <2>3. Serving(s)' = {c} /\ Waking(s)' = {}
      BY <1>1, <1>13, <1>14, <2>2, PlacesMoved DEF InService
    <2>4. Locking(c)'
      BY <1>1, <1>13, PhaseSets DEF TypeInv, Locking
    <2> QED
      BY <1>16, <2>2, <2>3, <2>4 DEF ShardReached
  <1>18. \A z \in Shards \ {s} :
           /\ shardActive'[z] = shardActive[z]
           /\ Listed(z) = {} => Listed(z)' = {}
           /\ (\E k \in DOMAIN activeShards : Listed(z) = {k})
                => \E k \in DOMAIN activeShards' : Listed(z)' = {k}
    BY <1>16
  <1>19. l \notin {"release", "notify"} /\ loc[c].shard = s /\ v.shard = s
    BY <1>2, <1>13, <1>14
  <1> QED
    BY <1>12, <1>13, <1>15, <1>17, <1>18, <1>19, ConsumerReach

\* Each step keeps the invariant.
LEMMA ServesReach ==
  ASSUME Grounds, TypeInv', ReachInv, NEW p, Serves(p)
  PROVE  ReachInv'
  BY BeginReach, LockReach, AdmitReach, PushReach, WakeReach, RoundReach, PassReach,
     PopReach, LeaveReach, ClientReach, SettleReach
     DEF Serves, ProducerStep, Polls

LEMMA IdleReach ==
  ASSUME ReachInv, UNCHANGED <<queue, active, ring, shardVars, pc, loc>>
  PROVE  ReachInv'
  <1>1. /\ \A z : HasWork(z)' <=> HasWork(z)
        /\ \A z : Listed(z)' = Listed(z) /\ Serving(z)' = Serving(z) /\ Waking(z)' = Waking(z)
    BY DEF HasWork, Listed, Serving, Waking, JobShard, shardVars
  <1>2. RingsServed'
    BY Untouched
  <1>3. IdleKnown'
    <2>1. \A p \in Producers : Locking(p)' <=> Locking(p)
      BY DEF Locking
    <2>2. \A p \in Producers : HasWork(JobShard(p))' <=> HasWork(JobShard(p))
      BY DEF HasWork, JobShard
    <2> QED
      BY <2>1, <2>2 DEF ReachInv, IdleKnown
  <1>4. ServiceHeld'
    BY DEF ReachInv, ServiceHeld
  <1>5. \A z \in Shards : ShardReached(z)'
    <2>1. \A c \in Consumers : Locking(c)' <=> Locking(c)
      BY DEF Locking
    <2> QED
      BY <1>1, <2>1 DEF ReachInv, ShardReached, shardVars
  <1> QED
    BY <1>2, <1>3, <1>4, <1>5 DEF ReachInv

LEMMA InitReach == Init => ReachInv
  <1> SUFFICES ASSUME Init
               PROVE  ReachInv
    OBVIOUS
  <1>1. /\ \A p \in Procs : pc[p] = "idle"
        /\ \A t \in Tenants, i \in Prios : queue[t][i] = {} /\ active[t][i] = FALSE
        /\ \A s \in Shards, i \in Prios : ring[s][i] = <<>>
        /\ \A s \in Shards : shardActive[s] = FALSE
        /\ activeShards = <<>>
    BY DEF Init
  <1>2. RingsServed
    BY <1>1 DEF RingsServed
  <1>3. IdleKnown /\ ServiceHeld
    BY <1>1 DEF IdleKnown, ServiceHeld, Locking, Procs
  <1>4. ASSUME NEW s \in Shards
        PROVE  ShardReached(s)
    <2>1. Listed(s) = {} /\ Serving(s) = {} /\ Waking(s) = {}
      BY <1>1 DEF Listed, Serving, Waking, Procs
    <2>2. ~HasWork(s)
      BY <1>1 DEF HasWork
    <2> QED
      BY <1>1, <2>1, <2>2 DEF ShardReached
  <1> QED
    BY <1>2, <1>3, <1>4 DEF ReachInv

\* Whatever can be run is in reach of the consumers: a tenant with entries is in
\* the ring of its shard, and the shard is in exactly one place (activate_shard,
\* the ring of shards, a consumer between its pop and its put back).
THEOREM ReachInvariant == Spec => []ReachInv
  <1>1. TypeInv /\ TypeInv' /\ SlotInv /\ LedgerInv /\ ReachInv /\ [Next]_vars => ReachInv'
    <2> SUFFICES ASSUME Grounds, TypeInv', ReachInv, [Next]_vars
                 PROVE  ReachInv'
      BY DEF Grounds
    <2>1. CASE \E p : Serves(p)
      BY <2>1, ServesReach
    <2>2. CASE \E c \in Consumers : Weigh(c) \/ Commit(c)
      BY <2>2, WeighReach, PassReach
    <2>3. CASE Expire \/ UNCHANGED vars
      BY <2>3, IdleReach DEF Expire, vars, entryVars, drrVars
    <2> QED
      BY <2>1, <2>2, <2>3, NextCases
  <1> QED
    BY <1>1, InitReach, TypeCorrect, SlotInvariant, LedgerInvariant, PTL DEF Spec

THEOREM TasksInReach == Spec => []RunnableReachable
  <1>1. TypeInv /\ ReachInv => RunnableReachable
    BY ReachesRunnable
  <1> QED
    BY <1>1, TypeCorrect, ReachInvariant, PTL
=============================================================================
