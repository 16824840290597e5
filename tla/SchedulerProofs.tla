--------------------------- MODULE SchedulerProofs ---------------------------
(***************************************************************************)
(* Scheduler for any number of threads, tenants, shards and tasks: its     *)
(* type invariant with the mutual exclusion that rests on, then the slot   *)
(* accounting.  Every step either leaves the slots alone, moves some from  *)
(* the pending set to a process that will release them, releases them,     *)
(* reserves one, hands one over or fills one: one lemma for each.          *)
(***************************************************************************)
EXTENDS SchedulerProps, WellFoundedInduction, FiniteSetTheorems, TLAPS


\* A set of naturals that is not empty has a least element.
LEMMA LeastElement ==
  ASSUME NEW S \in SUBSET Nat, S # {}
  PROVE  \E x \in S : \A y \in S : x <= y
  <1> DEFINE R == OpToRel(<, Nat)
  <1>1. IsWellFoundedOn(R, Nat)
    BY NatLessThanWellFounded
  <1>2. \A x, y \in Nat : y < x => <<y, x>> \in R
    BY DEF OpToRel
  <1> HIDE DEF R
  <1>3. PICK x \in S : \A y \in S : <<y, x>> \notin R
    BY <1>1, WFMin
  <1>4. \A y \in S : ~(y < x)
    BY <1>2, <1>3
  <1>5. \A y \in S : x <= y
    BY <1>4
  <1> QED
    BY <1>5

\* The front of a queue that is not empty is in it, and is its oldest entry.
LEMMA FrontInQueue ==
  ASSUME NEW q \in SUBSET Nat, q # {}
  PROVE  Front(q) \in q /\ \A y \in q : Front(q) <= y
  BY LeastElement DEF Front

\* Every tenant has a shard.
LEMMA ShardOfType ==
  ASSUME NEW t \in Tenants
  PROVE  ShardOf(t) \in Shards
  <1>1. t \in Nat /\ NumShards \in Nat \ {0}
    BY SchedulerAssumption
  <1>2. t % NumShards \in 0 .. NumShards - 1
    BY <1>1
  <1> QED
    BY <1>2 DEF ShardOf, Shards

\* What the operators on sequences return.
LEMMA SeqOps ==
  ASSUME NEW S, NEW s \in Seq(S)
  PROVE  /\ Len(s) \in Nat
         /\ \A e \in S : Append(s, e) \in Seq(S) /\ Len(Append(s, e)) = Len(s) + 1
         /\ s # <<>> => /\ Head(s) \in S /\ Tail(s) \in Seq(S)
                        /\ Len(s) > 0 /\ Len(Tail(s)) = Len(s) - 1
  OBVIOUS

\* The locals of a process outside any call have their types.
LEMMA FreshType ==
  /\ Fresh \in LocType
  /\ \A r \in Requests : [Fresh EXCEPT !.job = r] \in LocType
  /\ Fresh.then = "idle"
  /\ \A r \in Requests : [Fresh EXCEPT !.job = r].then = "idle"
  <1>1. AnyRequest \in Requests
    BY SchedulerAssumption DEF AnyRequest
  <1>2. 0 \in Shards /\ 0 \in Prios
    BY SchedulerAssumption DEF Shards, Prios
  <1> QED
    BY <1>1, <1>2 DEF Fresh, LocType

\* The fields of a request, and the shards that processes work on.
LEMMA RequestType ==
  \A r \in Requests : /\ r.tenant \in Tenants /\ r.prio \in Prios
                      /\ r.cost \in Nat /\ r.deadline \in BOOLEAN
  <1>1. Requests \subseteq
          [tenant : Tenants, prio : Prios, cost : Nat, deadline : BOOLEAN]
    BY SchedulerAssumption
  <1> QED
    BY <1>1

LEMMA LocFields ==
  ASSUME TypeOK, NEW p \in Procs
  PROVE  /\ loc[p] \in LocType
         /\ loc[p].job \in Requests /\ loc[p].job.tenant \in Tenants
         /\ loc[p].job.prio \in Prios /\ loc[p].item \in Nat
         /\ loc[p].shard \in Shards /\ loc[p].level \in Prios
         /\ loc[p].visits \in Nat /\ loc[p].left \in Nat
         /\ JobShard(p) \in Shards /\ HeldShard(p) \in Shards
  <1>1. loc[p] \in LocType
    BY DEF TypeOK
  <1>2. /\ loc[p].job \in Requests /\ loc[p].item \in Nat
        /\ loc[p].shard \in Shards /\ loc[p].level \in Prios
        /\ loc[p].visits \in Nat /\ loc[p].left \in Nat
    BY <1>1 DEF LocType
  <1>3. loc[p].job.tenant \in Tenants /\ loc[p].job.prio \in Prios
    BY <1>2, RequestType
  <1>4. JobShard(p) \in Shards
    BY <1>3, ShardOfType DEF JobShard
  <1> QED
    BY <1>1, <1>2, <1>3, <1>4 DEF HeldShard

\* One entry of a table of tables is replaced.
LEMMA DeepUpdate ==
  ASSUME NEW S, NEW T, NEW V, NEW f \in [S -> [T -> V]], NEW a \in S, NEW b \in T,
         NEW e, NEW z \in S, NEW j \in T
  PROVE  [f EXCEPT ![a][b] = e][z][j] = IF z = a /\ j = b THEN e ELSE f[z][j]
  <1>1. CASE z = a
    BY <1>1
  <1>2. CASE z # a
    BY <1>2
  <1> QED
    BY <1>1, <1>2

\* One entry is changed of a table with a row for each tenant.
LEMMA TableType ==
  ASSUME NEW S, NEW f \in [Tenants -> [Prios -> S]],
         NEW t \in Tenants, NEW i \in Prios, NEW e \in S, NEW g,
         g = f \/ g = [f EXCEPT ![t][i] = e]
  PROVE  g \in [Tenants -> [Prios -> S]]
  <1>1. [f[t] EXCEPT ![i] = e] \in [Prios -> S]
    OBVIOUS
  <1>2. CASE g = f
    BY <1>2
  <1>3. CASE g = [f EXCEPT ![t][i] = e]
    BY <1>1, <1>3
  <1> QED
    BY <1>2, <1>3

\* One ring is changed.
LEMMA RingType ==
  ASSUME SharedOK, NEW s \in Shards, NEW i \in Prios, NEW round \in Seq(Tenants),
         ring' = [ring EXCEPT ![s][i] = round]
  PROVE  /\ ring' \in [Shards -> [Prios -> Seq(Tenants)]]
         /\ ring'[s][i] = round
         /\ \A z \in Shards : z # s => ring'[z] = ring[z]
  <1>1. ring \in [Shards -> [Prios -> Seq(Tenants)]]
    BY DEF SharedOK
  <1>2. [ring[s] EXCEPT ![i] = round] \in [Prios -> Seq(Tenants)]
    BY <1>1
  <1> QED
    BY <1>1, <1>2

\* A step of p keeps the invariant when it does so for p, takes and gives back
\* only free mutexes and its own, and changes only the rings it has locked.
LEMMA Frame ==
  ASSUME TypeInv, TypeOK', NEW p \in Procs,
         \A q \in Procs \ {p} : pc'[q] = pc[q] /\ loc'[q] = loc[q],
         \A s \in Shards : lock'[s] = lock[s] \/ lock[s] \in {NoProc, p},
         \A s \in Shards : ring'[s] = ring[s] \/ lock[s] = p,
         DOMAIN task \subseteq DOMAIN task',
         Locking(p)' => (lock[HeldShard(p)] = p)',
         p \in Consumers /\ pc'[p] \in {"scan", "commit"} =>
           loc'[p].visits <= Len(ring'[loc'[p].shard][loc'[p].level]),
         p \in Consumers /\ Weighing(p)' =>
           loc'[p].visits < Len(ring'[loc'[p].shard][loc'[p].level]),
         pc'[p] \in {"commit", "mark"} => loc'[p].item \in DOMAIN task',
         pc'[p] \in {"idle", "mark", "activate", "publish"} => loc'[p].then = "idle"
  PROVE  TypeInv'
  <1>1. \A q \in Procs \ {p} : HeldShard(q)' = HeldShard(q) /\ Locking(q)' = Locking(q)
    BY DEF HeldShard, JobShard, Locking
  <1>2. \A q \in Procs : HeldShard(q) \in Shards
    BY LocFields DEF TypeInv
  <1>3. MutualExclusion'
    <2> SUFFICES ASSUME NEW q \in Procs, Locking(q)'
                 PROVE  (lock[HeldShard(q)] = q)'
      BY DEF MutualExclusion
    <2>1. CASE q = p
      BY <2>1
    <2>2. CASE q # p
      <3>1. lock[HeldShard(q)] = q
        BY <1>1, <2>2 DEF TypeInv, MutualExclusion
      <3>2. lock'[HeldShard(q)] = q
        BY <1>2, <2>2, <3>1, SchedulerAssumption
      <3> QED
        BY <1>1, <2>2, <3>2
    <2> QED
      BY <2>1, <2>2
  <1>4. VisitsCovered'
    <2> SUFFICES ASSUME NEW c \in Consumers, c # p,
                        pc[c] \in {"scan", "commit"} \/ Weighing(c)
                 PROVE  ring'[loc[c].shard] = ring[loc[c].shard]
      BY DEF VisitsCovered, Weighing, TypeInv, Procs
    <2>1. Locking(c) /\ HeldShard(c) = loc[c].shard
      BY SchedulerAssumption DEF Locking, Weighing, HeldShard
    <2>2. lock[loc[c].shard] = c /\ loc[c].shard \in Shards
      BY <1>2, <2>1 DEF TypeInv, MutualExclusion, Procs
    <2> QED
      BY <2>2
  <1>5. LocalsSet'
    BY DEF LocalsSet, TypeInv
  <1> QED
    BY <1>3, <1>4, <1>5 DEF TypeInv

\* The same for a step that takes p to the label l with the locals v, of a
\* producer, of a consumer and of a client.
Moves(p, l, v) == pc' = [pc EXCEPT ![p] = l] /\ loc' = [loc EXCEPT ![p] = v]

LEMMA Moved ==
  ASSUME TypeOK, SharedOK', NEW p \in Procs, NEW l \in Labels,
         NEW v \in LocType, Moves(p, l, v)
  PROVE  /\ TypeOK' /\ pc'[p] = l /\ loc'[p] = v
         /\ \A q \in Procs \ {p} : pc'[q] = pc[q] /\ loc'[q] = loc[q]
  BY DEF TypeOK, Moves

LEMMA ProducerFrame ==
  ASSUME TypeInv, SharedOK', NEW p \in Producers,
         NEW l \in Labels \ {"commit", "mark"}, NEW v \in LocType,
         Moves(p, l, v), DOMAIN task \subseteq DOMAIN task',
         \A s \in Shards : lock'[s] = lock[s] \/ lock[s] \in {NoProc, p},
         \A s \in Shards : ring'[s] = ring[s] \/ lock[s] = p,
         \/ /\ lock'[ShardOf(v.job.tenant)] = p
            /\ l \notin {"idle", "activate", "publish"}
         \/ l \in {"lock", "wait"}
         \/ l \in {"idle", "release", "notify", "activate", "publish"} /\ v.then = "idle"
  PROVE  TypeInv'
  <1>1. p \in Procs /\ p \notin Consumers
    BY SchedulerAssumption DEF Procs
  <1>2. /\ TypeOK' /\ pc'[p] = l /\ loc'[p] = v
        /\ \A q \in Procs \ {p} : pc'[q] = pc[q] /\ loc'[q] = loc[q]
    BY <1>1, Moved DEF TypeInv
  <1>3. Locking(p)' => (lock[HeldShard(p)] = p)'
    BY <1>1, <1>2 DEF Locking, HeldShard, JobShard
  <1> QED
    BY <1>1, <1>2, <1>3, Frame

LEMMA ConsumerFrame ==
  ASSUME TypeInv, SharedOK', NEW c \in Consumers,
         NEW l \in Labels \ {"mark"}, NEW v \in LocType,
         Moves(c, l, v), task' = task,
         \A s \in Shards : lock'[s] = lock[s] \/ lock[s] \in {NoProc, c},
         \A s \in Shards : ring'[s] = ring[s] \/ lock[s] = c,
         \/ /\ lock'[v.shard] = c
            /\ l \in {"scan", "commit"} => v.visits <= Len(ring'[v.shard][v.level])
            /\ (l = "weigh" \/ (l \in {"release", "notify"} /\ v.then = "weigh"))
                 => v.visits < Len(ring'[v.shard][v.level])
            /\ l = "commit" => v.item \in DOMAIN task
            /\ l \notin {"idle", "activate", "publish"}
         \/ l \in {"again", "enter", "pop", "grab", "putback", "empty",
                  "doze", "wait", "closed"}
         \/ l \in {"idle", "release", "notify"} /\ v.then = "idle"
  PROVE  TypeInv'
  <1>1. c \in Procs /\ c \notin Producers
    BY SchedulerAssumption DEF Procs
  <1>2. /\ TypeOK' /\ pc'[c] = l /\ loc'[c] = v
        /\ \A q \in Procs \ {c} : pc'[q] = pc[q] /\ loc'[q] = loc[q]
    BY <1>1, Moved DEF TypeInv
  <1>3. Locking(c)' => (lock[HeldShard(c)] = c)'
    BY <1>1, <1>2 DEF Locking, HeldShard
  <1>4. pc'[c] \in {"scan", "commit"} =>
          loc'[c].visits <= Len(ring'[loc'[c].shard][loc'[c].level])
    BY <1>2
  <1>5. Weighing(c)' =>
          loc'[c].visits < Len(ring'[loc'[c].shard][loc'[c].level])
    BY <1>2 DEF Weighing
  <1>6. pc'[c] \in {"commit", "mark"} => loc'[c].item \in DOMAIN task'
    BY <1>2
  <1> QED
    BY <1>1, <1>2, <1>3, <1>4, <1>5, <1>6, Frame

LEMMA ClientFrame ==
  ASSUME TypeInv, SharedOK', NEW k \in Cancellers \cup Closers,
         NEW l \in Labels \ {"commit", "activate", "publish"}, NEW v \in LocType,
         Moves(k, l, v), task' = task, lock' = lock, ring' = ring,
         l = "mark" => v.item \in DOMAIN task,
         lock[v.shard] = k \/ l \in {"idle", "mark", "release", "notify"},
         v.then = "idle" \/ (lock[v.shard] = k /\ l \notin {"idle", "mark"})
  PROVE  TypeInv'
  <1>1. k \in Procs /\ k \notin Consumers /\ k \notin Producers
    BY SchedulerAssumption DEF Procs
  <1>2. /\ TypeOK' /\ pc'[k] = l /\ loc'[k] = v
        /\ \A q \in Procs \ {k} : pc'[q] = pc[q] /\ loc'[q] = loc[q]
    BY <1>1, Moved DEF TypeInv
  <1>3. Locking(k)' => (lock[HeldShard(k)] = k)'
    BY <1>1, <1>2 DEF Locking, HeldShard
  <1> QED
    BY <1>1, <1>2, <1>3, Frame

-----------------------------------------------------------------------------
(* One lemma for each action. *)

LEMMA InitType == Init => TypeInv
  <1> SUFFICES ASSUME Init PROVE TypeInv
    OBVIOUS
  <1>1. TypeOK
    <2>1. 0 \in 0 .. MaxGlobal
      BY SchedulerAssumption
    <2>2. task = <<>> /\ DOMAIN task = {}
      BY DEF Init
    <2> QED
      BY <2>1, <2>2, FreshType DEF Init, TypeOK, SharedOK, Fates, Labels
  <1>2. MutualExclusion /\ VisitsCovered /\ LocalsSet
    BY FreshType DEF Init, MutualExclusion, VisitsCovered, LocalsSet, Locking,
                     Weighing, Procs
  <1> QED
    BY <1>1, <1>2 DEF TypeInv

\* A process that keeps its locals makes no difference to loc.
LEMMA Stay ==
  ASSUME TypeOK, NEW p \in Procs
  PROVE  /\ loc = [loc EXCEPT ![p] = loc[p]]
         /\ \A l : Goto(p, l) /\ UNCHANGED loc => Moves(p, l, loc[p])
         /\ Return(p) => Moves(p, "idle", Fresh)
  BY DEF TypeOK, Moves, Goto, Return

\* The release of slots and the notification leave a process where it was.
LEMMA Settled ==
  ASSUME TypeInv, SharedOK', NEW p \in Procs,
         pc[p] \in {"release", "notify"}, UNCHANGED <<task, lock, ring>>,
         NEW l \in {"notify", loc[p].then}, Moves(p, l, loc[p]),
         l # "idle"
  PROVE  TypeInv'
  <1>1. loc[p] \in LocType /\ l \in {"notify", "admit", "reserve", "weigh", "leave"}
    BY LocFields DEF TypeInv, LocType
  <1>2. l \in Labels
    BY <1>1 DEF Labels
  <1>3. lock[HeldShard(p)] = p \/ (l = "notify" /\ loc[p].then = "idle")
    BY <1>1 DEF TypeInv, MutualExclusion, Locking
  <1>4. CASE p \in Producers
    BY <1>1, <1>2, <1>3, <1>4, ProducerFrame DEF HeldShard, JobShard
  <1>5. CASE p \in Consumers
    <2>1. HeldShard(p) = loc[p].shard
      BY <1>5, SchedulerAssumption DEF HeldShard
    <2>2. loc[p].then = "weigh" =>
            loc[p].visits < Len(ring[loc[p].shard][loc[p].level])
      BY <1>5 DEF TypeInv, VisitsCovered, Weighing
    <2> QED
      BY <1>1, <1>2, <1>3, <1>5, <2>1, <2>2, ConsumerFrame
  <1>6. CASE p \in Cancellers \cup Closers
    <2>1. HeldShard(p) = loc[p].shard
      BY <1>6, SchedulerAssumption DEF HeldShard
    <2>2. l \in Labels \ {"commit", "activate", "publish"} /\ l # "mark"
      BY <1>1, <1>2
    <2>3. lock[loc[p].shard] = p \/ (l = "notify" /\ loc[p].then = "idle")
      BY <1>3, <2>1
    <2> QED
      BY <1>1, <1>6, <2>2, <2>3, ClientFrame
  <1> QED
    BY <1>4, <1>5, <1>6 DEF Procs

LEMMA BackToIdle ==
  ASSUME TypeInv, SharedOK', NEW p \in Procs,
         UNCHANGED <<task, lock, ring>>, Moves(p, "idle", Fresh)
  PROVE  TypeInv'
  <1>1. Fresh \in LocType /\ Fresh.then = "idle" /\ "idle" \in Labels
    BY FreshType DEF Labels
  <1> QED
    BY <1>1, ProducerFrame, ConsumerFrame, ClientFrame DEF Procs

LEMMA ReleaseType ==
  ASSUME TypeInv, NEW p \in Procs, Release(p)
  PROVE  TypeInv'
  <1>1. estimate' \in 0 .. MaxGlobal
    <2>1. IsFiniteSet(freed[p])
      <3>1. DOMAIN task = 1 .. Len(task) /\ Len(task) \in Nat
        BY DEF TypeInv, TypeOK, SharedOK
      <3>2. freed[p] \subseteq 1 .. Len(task)
        BY <3>1 DEF TypeInv, TypeOK, SharedOK
      <3>3. IsFiniteSet(1 .. Len(task))
        BY <3>1, FS_Interval
      <3> QED
        BY <3>2, <3>3, FS_Subset
    <2>2. Cardinality(freed[p]) \in Nat
      BY <2>1, FS_CardinalityType
    <2> QED
      BY <2>2, SchedulerAssumption DEF Release, TypeInv, TypeOK, SharedOK
  <1>2. SharedOK'
    BY <1>1 DEF TypeInv, TypeOK, SharedOK, Release, entryVars, drrVars, shardVars
  <1>3. Moves(p, "notify", loc[p]) /\ pc[p] = "release"
    BY Stay DEF TypeInv, Release
  <1> QED
    BY <1>2, <1>3, Settled DEF Release, entryVars, drrVars

LEMMA NotifyType ==
  ASSUME TypeInv, NEW p \in Procs, NotifyAll(p)
  PROVE  TypeInv'
  <1>1. SharedOK'
    BY DEF TypeInv, TypeOK, SharedOK, NotifyAll, slotVars, entryVars, drrVars,
           shardVars
  <1>2. UNCHANGED <<task, lock, ring>> /\ pc[p] = "notify"
    BY DEF NotifyAll, entryVars, drrVars
  <1>3. CASE loc[p].then = "idle"
    BY <1>1, <1>2, <1>3, Stay, BackToIdle DEF TypeInv, NotifyAll
  <1>4. CASE loc[p].then # "idle"
    BY <1>1, <1>2, <1>4, Stay, Settled DEF TypeInv, NotifyAll
  <1> QED
    BY <1>3, <1>4


LEMMA BeginAttemptType ==
  ASSUME TypeInv, NEW p \in Producers, NEW r \in Requests, BeginAttempt(p, r)
  PROVE  TypeInv'
  <1> DEFINE v == [Fresh EXCEPT !.job = r]
  <1>1. v \in LocType /\ v.then = "idle" /\ "lock" \in Labels
    BY FreshType DEF Labels
  <1>2. Moves(p, "lock", v)
    BY DEF BeginAttempt, Goto, Moves
  <1>3. SharedOK'
    BY DEF TypeInv, TypeOK, SharedOK, BeginAttempt, slotVars, entryVars,
           drrVars, shardVars, Procs
  <1>4. UNCHANGED <<task, lock, ring>>
    BY DEF BeginAttempt, entryVars, drrVars
  <1> HIDE DEF v
  <1> QED
    BY <1>1, <1>2, <1>3, <1>4, ProducerFrame

LEMMA RetryEnqueueType ==
  ASSUME TypeInv, NEW p \in Producers, RetryEnqueue(p)
  PROVE  TypeInv'
  <1>1. p \in Procs /\ loc[p].job \in Requests
    BY LocFields DEF TypeInv, Procs
  <1>2. CASE BeginAttempt(p, loc[p].job)
    BY <1>1, <1>2, BeginAttemptType
  <1>3. CASE ~BeginAttempt(p, loc[p].job)
    <2>1. SharedOK' /\ UNCHANGED <<task, lock, ring>>
      BY <1>3 DEF TypeInv, TypeOK, SharedOK, RetryEnqueue, slotVars, entryVars,
                  drrVars, shardVars
    <2>2. Moves(p, "idle", Fresh)
      BY <1>1, <1>3, Stay DEF TypeInv, RetryEnqueue
    <2> QED
      BY <1>1, <2>1, <2>2, BackToIdle
  <1> QED
    BY <1>2, <1>3

\* A purge removes entries from the queues of one tenant.
LEMMA PurgeType ==
  ASSUME SharedOK, NEW p \in Procs, NEW t \in Tenants, NEW budget,
         Purge(p, t, budget)
  PROVE  /\ queue' \in [Tenants -> [Prios -> SUBSET DOMAIN task]]
         /\ active' \in [Tenants -> [Prios -> BOOLEAN]]
         /\ attempts' \in [Tenants -> Nat]
         /\ cancelled' \subseteq DOMAIN task /\ pending' \subseteq DOMAIN task
         /\ freed' \in [Procs -> SUBSET DOMAIN task]
         /\ freed'[p] \subseteq pending
         /\ fate' \in [Ids -> Fates]
  <1> DEFINE gone == [i \in Prios |-> Purgeable(queue[t][i], budget)]
             removed == UNION {gone[i] : i \in Prios}
             live == Live(removed)
  <1>1. live \subseteq pending /\ live \subseteq DOMAIN task
    BY DEF Live, SharedOK
  <1>2. queue' = [queue EXCEPT ![t] = [i \in Prios |-> queue[t][i] \ gone[i]]]
    BY DEF Purge, SharedOK
  <1>3. active' = [active EXCEPT ![t] =
                     [i \in Prios |-> active[t][i] /\ queue[t][i] # gone[i]]]
    BY DEF Purge, SharedOK
  <1>4. /\ attempts' = [attempts EXCEPT ![t] = 0]
        /\ cancelled' = cancelled \ removed /\ pending' = pending \ live
        /\ freed' = [freed EXCEPT ![p] = live]
        /\ fate' = [x \in Ids |-> IF x \in live THEN "expired" ELSE fate[x]]
    BY DEF Purge
  <1> HIDE DEF gone, removed, live
  <1>5. queue' \in [Tenants -> [Prios -> SUBSET DOMAIN task]]
    <2>1. \A i \in Prios : queue[t][i] \ gone[i] \in SUBSET DOMAIN task
      BY DEF SharedOK
    <2> QED
      BY <1>2, <2>1 DEF SharedOK
  <1>6. active' \in [Tenants -> [Prios -> BOOLEAN]]
    BY <1>3, Zenon DEF SharedOK
  <1>7. fate' \in [Ids -> Fates]
    BY <1>4 DEF SharedOK, Fates
  <1> QED
    BY <1>1, <1>4, <1>5, <1>6, <1>7 DEF SharedOK

LEMMA LockForEnqueueType ==
  ASSUME TypeInv, NEW p \in Producers, LockForEnqueue(p)
  PROVE  TypeInv'
  <1> DEFINE s == JobShard(p)
             t == loc[p].job.tenant
             v == [loc[p] EXCEPT !.wasIdle = ~HasWork(s), !.then = "admit",
                                 !.purged = (PurgeReason(t) = "full")]
  <1>1. /\ p \in Procs /\ t \in Tenants /\ s \in Shards /\ loc[p] \in LocType
        /\ v \in LocType /\ v.job = loc[p].job
    BY LocFields DEF TypeInv, Procs, LocType
  <1>2. UNCHANGED <<mode, task, late, deficit, ring, shardVars, current>>
        /\ lock[s] = NoProc
    BY DEF LockForEnqueue
  <1>3. CASE mode # "open"
    <2>1. SharedOK' /\ lock' = lock
      BY <1>2, <1>3 DEF TypeInv, TypeOK, SharedOK, LockForEnqueue, slotVars, shardVars
    <2>2. Moves(p, "idle", Fresh)
      BY <1>1, <1>3, Stay DEF TypeInv, LockForEnqueue
    <2> QED
      BY <1>1, <1>2, <2>1, <2>2, BackToIdle
  <1>4. CASE mode = "open"
    <2>1. /\ lock' = [lock EXCEPT ![s] = p] /\ estimate' = estimate
          /\ loc' = [loc EXCEPT ![p] = v]
          /\ Goto(p, IF freed'[p] = {} THEN "admit" ELSE "release")
      BY <1>1, <1>4 DEF LockForEnqueue, TypeInv, TypeOK
    <2>2. PICK l \in {"admit", "release"} : Moves(p, l, v)
      BY <2>1 DEF Goto, Moves
    <2>3. SharedOK'
      <3>1. CASE PurgeReason(t) = "none"
        <4>1. /\ attempts' = [attempts EXCEPT ![t] = @ + 1]
              /\ UNCHANGED <<pending, cancelled, queue, fate, active, freed>>
          BY <1>4, <3>1 DEF LockForEnqueue
        <4> QED
          BY <1>1, <1>2, <2>1, <4>1 DEF TypeInv, TypeOK, SharedOK, shardVars
      <3>2. CASE PurgeReason(t) # "none"
        <4>1. Purge(p, t, Budget(PurgeReason(t)))
          BY <1>4, <3>2 DEF LockForEnqueue
        <4> QED
          BY <1>1, <1>2, <2>1, <4>1, PurgeType
             DEF TypeInv, TypeOK, SharedOK, shardVars
      <3> QED
        BY <3>1, <3>2
    <2>4. lock'[s] = p /\ \A q \in Shards : lock'[q] = lock[q] \/ lock[q] = NoProc
      BY <1>1, <1>2, <2>1 DEF TypeInv, TypeOK, SharedOK
    <2>5. lock'[ShardOf(v.job.tenant)] = p
      BY <1>1, <2>4 DEF JobShard
    <2>6. l \in Labels \ {"commit", "mark"}
      BY DEF Labels
    <2> HIDE DEF v
    <2> QED
      BY <1>1, <1>2, <2>2, <2>3, <2>4, <2>5, <2>6, ProducerFrame
  <1> QED
    BY <1>3, <1>4

\* A refused call lets go of the shard it has locked.
LEMMA RefuseType ==
  ASSUME TypeInv, NEW p \in Producers, Refuse(p), lock[JobShard(p)] = p,
         ring' = ring, task' = task,
         lock' \in [Shards -> Procs \cup {NoProc}] => SharedOK'
  PROVE  TypeInv'
  <1> DEFINE v == [Fresh EXCEPT !.job = loc[p].job]
  <1>1. /\ p \in Procs /\ JobShard(p) \in Shards
        /\ Fresh \in LocType /\ v \in LocType
        /\ Fresh.then = "idle" /\ v.then = "idle"
    BY LocFields, FreshType DEF TypeInv, Procs
  <1>2. PICK l \in {"idle", "wait"}, w \in {Fresh, v} : Moves(p, l, w)
    BY <1>1, Stay DEF Refuse, TypeInv, Moves, Goto
  <1> HIDE DEF v
  <1>3. SharedOK'
    BY <1>1 DEF Refuse, Unlock, TypeInv, TypeOK, SharedOK
  <1>4. \A s \in Shards : lock'[s] = lock[s] \/ lock[s] = p
    BY <1>1 DEF Refuse, Unlock, TypeInv, TypeOK, SharedOK
  <1>5. l \in Labels \ {"commit", "mark"}
    BY DEF Labels
  <1> QED
    BY <1>1, <1>2, <1>3, <1>4, <1>5, ProducerFrame

\* A step of a producer that goes on under the shard lock.
LEMMA HoldType ==
  ASSUME TypeInv, SharedOK', NEW p \in Producers, lock[JobShard(p)] = p,
         NEW l \in {"admit", "reserve", "push", "release"}, NEW v \in LocType,
         Moves(p, l, v), v.job = loc[p].job, UNCHANGED <<task, lock, ring>>
  PROVE  TypeInv'
  <1>1. l \in Labels \ {"commit", "mark"}
    BY DEF Labels
  <1> QED
    BY <1>1, ProducerFrame DEF JobShard

LEMMA AdmitType ==
  ASSUME TypeInv, NEW p \in Producers, Admit(p)
  PROVE  TypeInv'
  <1>1. /\ p \in Procs /\ loc[p] \in LocType /\ lock[JobShard(p)] = p
        /\ UNCHANGED <<task, ring>>
    BY LocFields DEF TypeInv, Procs, Admit, MutualExclusion, Locking, HeldShard,
                     entryVars, drrVars
  <1>2. lock' \in [Shards -> Procs \cup {NoProc}] => SharedOK'
    BY DEF TypeInv, TypeOK, SharedOK, Admit, slotVars, entryVars, drrVars, shardVars
  <1>3. CASE Refuse(p)
    BY <1>1, <1>2, <1>3, RefuseType
  <1>4. CASE ~Refuse(p)
    <2>1. Moves(p, "reserve", loc[p]) /\ lock' = lock
      BY <1>1, <1>4, Stay DEF Admit, TypeInv
    <2>2. SharedOK'
      BY <1>2, <2>1 DEF TypeInv, TypeOK, SharedOK
    <2> QED
      BY <1>1, <2>1, <2>2, HoldType
  <1> QED
    BY <1>3, <1>4

LEMMA AdmitByDroppingType ==
  ASSUME TypeInv, NEW p \in Producers, AdmitByDropping(p)
  PROVE  TypeInv'
  <1> DEFINE t == loc[p].job.tenant
             v == Victim(t, loc[p].job.prio)
  <1>1. /\ p \in Procs /\ loc[p] \in LocType /\ lock[JobShard(p)] = p
        /\ t \in Tenants
    BY LocFields DEF TypeInv, Procs, AdmitByDropping, MutualExclusion, Locking,
                     HeldShard
  <1>2. UNCHANGED <<mode, estimate, task, late, deficit, active, attempts, ring,
                    activeShards, shardActive, current, freed>>
    BY DEF AdmitByDropping, drrVars, shardVars
  <1>3. /\ cancelled' \subseteq cancelled /\ pending' \subseteq pending
        /\ \/ queue' = queue
           \/ queue' = [queue EXCEPT ![t] = [i \in Prios |-> queue[t][i] \ {v}]]
    BY <1>1 DEF AdmitByDropping, TypeInv, TypeOK, SharedOK
  <1>4. queue' \in [Tenants -> [Prios -> SUBSET DOMAIN task]]
    <2> HIDE DEF t, v
    <2> DEFINE rest == [i \in Prios |-> queue[t][i] \ {v}]
    <2>1. rest \in [Prios -> SUBSET DOMAIN task]
      BY <1>1 DEF TypeInv, TypeOK, SharedOK
    <2>2. queue' = queue \/ queue' = [queue EXCEPT ![t] = rest]
      BY <1>3
    <2> HIDE DEF rest
    <2> QED
      BY <1>1, <2>1, <2>2 DEF TypeInv, TypeOK, SharedOK
  <1>5. fate' = fate \/ fate' = [fate EXCEPT ![v] = "dropped"]
    BY DEF AdmitByDropping
  <1>6. fate' \in [Ids -> Fates]
    BY <1>5 DEF TypeInv, TypeOK, SharedOK, Fates
  <1>7. lock' \in [Shards -> Procs \cup {NoProc}] => SharedOK'
    BY <1>2, <1>3, <1>4, <1>6 DEF TypeInv, TypeOK, SharedOK
  <1>8. CASE Refuse(p)
    BY <1>1, <1>2, <1>7, <1>8, RefuseType
  <1>9. CASE ~Refuse(p)
    <2>1. lock' = lock /\ \E l \in {"push", "reserve"} : Moves(p, l, loc[p])
      BY <1>1, <1>9, Stay DEF AdmitByDropping, TypeInv
    <2>2. SharedOK'
      BY <1>7, <2>1 DEF TypeInv, TypeOK, SharedOK
    <2> QED
      BY <1>1, <1>2, <2>1, <2>2, HoldType
  <1> QED
    BY <1>8, <1>9

LEMMA ReserveType ==
  ASSUME TypeInv, NEW p \in Producers, Reserve(p)
  PROVE  TypeInv'
  <1> DEFINE t == loc[p].job.tenant
             v == [loc[p] EXCEPT !.purged = TRUE, !.then = "reserve"]
  <1>1. /\ p \in Procs /\ loc[p] \in LocType /\ lock[JobShard(p)] = p
        /\ t \in Tenants /\ v \in LocType /\ v.job = loc[p].job
    <2>1. p \in Procs /\ pc[p] = "reserve" /\ TypeOK
      BY DEF TypeInv, Procs, Reserve
    <2>2. loc[p] \in LocType /\ t \in Tenants
      BY <2>1, LocFields
    <2>3. lock[JobShard(p)] = p
      BY <2>1 DEF TypeInv, MutualExclusion, Locking, HeldShard
    <2>4. v \in LocType /\ v.job = loc[p].job
      BY <2>2 DEF LocType
    <2> QED
      BY <2>1, <2>2, <2>3, <2>4
  <1>2. UNCHANGED <<mode, task, late, deficit, ring, activeShards, shardActive,
                    current>>
    BY DEF Reserve, shardVars
  <1>3. CASE SlotFree
    <2>1. /\ estimate' = estimate + 1 /\ Moves(p, "push", loc[p])
          /\ UNCHANGED <<pending, cancelled, queue, fate, active, attempts,
                         lock, freed>>
      BY <1>1, <1>3, Stay DEF Reserve, TypeInv
    <2>2. SharedOK'
      <3>1. estimate \in 0 .. MaxGlobal /\ MaxGlobal \in Nat
        BY SchedulerAssumption DEF TypeInv, TypeOK, SharedOK
      <3>2. estimate' \in 0 .. MaxGlobal
        BY <1>3, <2>1, <3>1 DEF SlotFree
      <3> QED
        BY <1>2, <2>1, <3>2 DEF TypeInv, TypeOK, SharedOK
    <2> QED
      BY <1>1, <1>2, <2>1, <2>2, HoldType
  <1>4. CASE ~SlotFree /\ ~loc[p].purged
    <2>1. estimate' = estimate /\ Purge(p, t, FullBudget)
      BY <1>4 DEF Reserve
    <2>2. lock' \in [Shards -> Procs \cup {NoProc}] => SharedOK'
      BY <1>1, <1>2, <2>1, PurgeType DEF TypeInv, TypeOK, SharedOK
    <2>3. CASE Refuse(p)
      BY <1>1, <1>2, <2>2, <2>3, RefuseType
    <2>4. CASE ~Refuse(p)
      <3>1. lock' = lock /\ Moves(p, "release", v)
        BY <1>1, <1>4, <2>4 DEF Reserve, Goto, Moves, TypeInv, TypeOK
      <3>2. SharedOK'
        BY <2>2, <3>1 DEF TypeInv, TypeOK, SharedOK
      <3> HIDE DEF v
      <3> QED
        BY <1>1, <1>2, <3>1, <3>2, HoldType
    <2> QED
      BY <2>3, <2>4
  <1>5. CASE ~SlotFree /\ loc[p].purged
    <2>1. /\ Refuse(p)
          /\ UNCHANGED <<slotVars, queue, fate, active, attempts, freed>>
      BY <1>5 DEF Reserve
    <2>2. lock' \in [Shards -> Procs \cup {NoProc}] => SharedOK'
      BY <1>2, <2>1 DEF TypeInv, TypeOK, SharedOK, slotVars
    <2> QED
      BY <1>1, <1>2, <2>1, <2>2, RefuseType
  <1> QED
    BY <1>3, <1>4, <1>5

LEMMA PushType ==
  ASSUME TypeInv, NEW p \in Producers, Push(p)
  PROVE  TypeInv'
  <1> DEFINE r == loc[p].job
             t == r.tenant
             x == Len(task) + 1
             q == queue[t][r.prio]
             signal == MustNotify(q)
             v == [loc[p] EXCEPT !.item = x, !.signal = signal, !.then = "idle"]
  <1>1. /\ p \in Procs /\ loc[p] \in LocType /\ r \in Requests /\ t \in Tenants
        /\ r.prio \in Prios /\ ShardOf(t) \in Shards /\ lock[ShardOf(t)] = p
    BY LocFields DEF TypeInv, Procs, Push, MutualExclusion, Locking,
                     HeldShard, JobShard
  <1>2. /\ Len(task) \in Nat /\ task' \in Seq(Requests)
        /\ DOMAIN task \subseteq DOMAIN task' /\ x \in DOMAIN task'
    <2>1. task \in Seq(Requests) /\ task' = Append(task, r)
      BY DEF TypeInv, TypeOK, SharedOK, Push
    <2> QED
      BY <1>1, <2>1
  <1>3. UNCHANGED <<mode, estimate, cancelled, late, deficit, attempts,
                    activeShards, shardActive, current, freed>>
    BY DEF Push, shardVars
  <1>4. /\ pending' = pending \cup {x} /\ fate' = [fate EXCEPT ![x] = "queued"]
        /\ queue' = [queue EXCEPT ![t][r.prio] = @ \cup {x}]
        /\ lock' = [lock EXCEPT ![ShardOf(t)] = NoProc]
    BY DEF Push, Unlock
  <1>5. active' \in [Tenants -> [Prios -> BOOLEAN]]
    <2>1. active' = [active EXCEPT ![t][r.prio] = @ \/ q = {}]
      BY DEF Push
    <2> QED
      BY <1>1, <2>1 DEF TypeInv, TypeOK, SharedOK
  <1>6. /\ ring' \in [Shards -> [Prios -> Seq(Tenants)]]
        /\ \A s \in Shards : ring'[s] = ring[s] \/ lock[s] = p
    <2>1. \/ ring' = ring
          \/ ring' = [ring EXCEPT ![ShardOf(t)][r.prio] = Append(@, t)]
      BY DEF Push
    <2>2. Append(ring[ShardOf(t)][r.prio], t) \in Seq(Tenants)
      BY <1>1, SeqOps DEF TypeInv, TypeOK, SharedOK
    <2> HIDE DEF t, r
    <2>3. CASE ring' = ring
      BY <2>3 DEF TypeInv, TypeOK, SharedOK
    <2>4. CASE ring' = [ring EXCEPT ![ShardOf(t)][r.prio] = Append(@, t)]
      <3>1. ring' = [ring EXCEPT ![ShardOf(t)][r.prio] =
                       Append(ring[ShardOf(t)][r.prio], t)]
        BY <2>4
      <3> QED
        BY <1>1, <2>2, <3>1, RingType DEF TypeInv, TypeOK
    <2> QED
      BY <2>1, <2>3, <2>4
  <1>7. SharedOK'
    <2>1. queue' \in [Tenants -> [Prios -> SUBSET DOMAIN task']]
      BY <1>1, <1>2, <1>4 DEF TypeInv, TypeOK, SharedOK
    <2>2. fate' \in [Ids -> Fates]
      BY <1>4 DEF TypeInv, TypeOK, SharedOK, Fates
    <2>3. freed' \in [Procs -> SUBSET DOMAIN task']
      BY <1>2, <1>3 DEF TypeInv, TypeOK, SharedOK
    <2>4. lock' \in [Shards -> Procs \cup {NoProc}]
      BY <1>4 DEF TypeInv, TypeOK, SharedOK
    <2> QED
      BY <1>2, <1>3, <1>4, <1>5, <1>6, <2>1, <2>2, <2>3, <2>4
         DEF TypeInv, TypeOK, SharedOK
  <1>8. \A s \in Shards : lock'[s] = lock[s] \/ lock[s] = p
    BY <1>1, <1>4 DEF TypeInv, TypeOK, SharedOK
  <1>9. v \in LocType /\ v.then = "idle"
    <2>1. x \in Nat /\ signal \in BOOLEAN
      BY <1>2 DEF MustNotify
    <2> HIDE DEF x, signal
    <2> QED
      BY <1>1, <2>1 DEF LocType
  <1>10. Moves(p, "idle", Fresh) \/ \E l \in {"activate", "notify"} : Moves(p, l, v)
    <2>1. CASE loc[p].wasIdle \/ signal
      <3>1. Goto(p, IF loc[p].wasIdle THEN "activate" ELSE "notify")
        BY <2>1 DEF Push
      <3>2. loc' = [loc EXCEPT ![p] = v]
        BY <1>1, <2>1 DEF Push, TypeInv, TypeOK
      <3> QED
        BY <3>1, <3>2 DEF Goto, Moves
    <2>2. CASE ~(loc[p].wasIdle \/ signal)
      BY <1>1, <2>2, Stay DEF Push, TypeInv
    <2> QED
      BY <2>1, <2>2
  <1>11. {"activate", "notify", "idle"} \subseteq Labels \ {"commit", "mark"}
    BY DEF Labels
  <1>12. Fresh \in LocType /\ Fresh.then = "idle"
    BY FreshType
  <1> HIDE DEF v
  <1> QED
    BY <1>2, <1>6, <1>7, <1>8, <1>9, <1>10, <1>11, <1>12, ProducerFrame

LEMMA ActivateType ==
  ASSUME TypeInv, NEW p \in Producers, Activate(p) \/ Publish(p)
  PROVE  TypeInv'
  <1>1. p \in Procs /\ loc[p] \in LocType /\ JobShard(p) \in Shards
    BY LocFields DEF TypeInv, Procs
  <1>2. UNCHANGED <<mode, slotVars, entryVars, drrVars, lock, current, freed>>
    BY DEF Activate, Publish
  <1>3. activeShards' \in Seq(Shards) /\ shardActive' \in [Shards -> BOOLEAN]
    <2>1. activeShards' = activeShards \/ activeShards' = Append(activeShards, JobShard(p))
      BY DEF Activate, Publish
    <2>2. \/ shardActive' = shardActive
          \/ shardActive' = [shardActive EXCEPT ![JobShard(p)] = TRUE]
      BY DEF Activate, Publish
    <2>3. Append(activeShards, JobShard(p)) \in Seq(Shards)
      BY <1>1, SeqOps DEF TypeInv, TypeOK, SharedOK
    <2> QED
      BY <1>1, <2>1, <2>2, <2>3 DEF TypeInv, TypeOK, SharedOK
  <1>4. SharedOK' /\ UNCHANGED <<task, lock, ring>>
    BY <1>2, <1>3 DEF TypeInv, TypeOK, SharedOK, slotVars, entryVars, drrVars
  <1>5. CASE Moves(p, "idle", Fresh)
    BY <1>1, <1>4, <1>5, BackToIdle
  <1>6. CASE ~Moves(p, "idle", Fresh)
    <2>1. \E l \in {"publish", "notify"} : Moves(p, l, loc[p])
      BY <1>1, <1>6, Stay DEF TypeInv, Activate, Publish, AfterActivation
    <2>2. {"publish", "notify"} \subseteq Labels \ {"commit", "mark"}
      BY DEF Labels
    <2>3. loc[p].then = "idle"
      BY <1>1 DEF TypeInv, LocalsSet, Activate, Publish
    <2> QED
      BY <1>1, <1>4, <2>1, <2>2, <2>3, ProducerFrame
  <1> QED
    BY <1>5, <1>6

LEMMA ClientType ==
  ASSUME TypeInv, NEW k \in Cancellers \cup Closers,
         CancelTake(k) \/ CancelMark(k) \/ Close(k)
  PROVE  TypeInv'
  <1>1. /\ k \in Procs /\ loc[k] \in LocType /\ loc[k].then = "idle"
        /\ {"mark", "release", "notify"} \subseteq Labels
    BY LocFields DEF TypeInv, LocalsSet, Procs, Labels, CancelTake, CancelMark, Close
  <1>2. CASE CancelTake(k)
    <2>1. PICK x \in pending :
            /\ pending' = pending \ {x} /\ fate' = [fate EXCEPT ![x] = "cancelled"]
            /\ freed' = [freed EXCEPT ![k] = {x}]
            /\ loc' = [loc EXCEPT ![k].item = x]
      BY <1>2 DEF CancelTake
    <2> DEFINE v == [loc[k] EXCEPT !.item = x]
    <2>2. UNCHANGED <<mode, estimate, cancelled, task, late, queue, drrVars,
                      shardVars, lock, current>>
      BY <1>2 DEF CancelTake
    <2>3. x \in DOMAIN task /\ x \in Nat
      BY DEF TypeInv, TypeOK, SharedOK
    <2>4. SharedOK'
      BY <2>1, <2>2, <2>3 DEF TypeInv, TypeOK, SharedOK, drrVars, shardVars, Fates
    <2>5. v \in LocType /\ v.item = x /\ v.then = "idle"
      BY <1>1, <2>3 DEF LocType
    <2>6. Moves(k, "mark", v)
      BY <1>1, <1>2, <2>1 DEF CancelTake, Goto, Moves, TypeInv, TypeOK
    <2> HIDE DEF v
    <2>7. task' = task /\ lock' = lock /\ ring' = ring
      BY <2>2 DEF drrVars
    <2> QED
      BY <1>1, <2>3, <2>4, <2>5, <2>6, <2>7, ClientFrame
  <1>3. CASE CancelMark(k) \/ Close(k)
    <2>1. \/ mode' = mode \/ mode' \in CloseModes
      BY <1>3 DEF CancelMark, Close
    <2>2. cancelled' = cancelled \/ cancelled' = cancelled \cup {loc[k].item}
      BY <1>3 DEF CancelMark, Close, slotVars
    <2>3. CancelMark(k) => loc[k].item \in DOMAIN task
      BY <1>1 DEF CancelMark, TypeInv, LocalsSet
    <2>4. cancelled' \subseteq DOMAIN task
      BY <1>3, <2>2, <2>3 DEF Close, slotVars, TypeInv, TypeOK, SharedOK
    <2>5. UNCHANGED <<estimate, pending, entryVars, drrVars, shardVars, lock,
                      current, freed>>
      BY <1>3 DEF CancelMark, Close, slotVars
    <2>6. SharedOK' /\ task' = task /\ lock' = lock /\ ring' = ring
      BY <2>1, <2>4, <2>5, SchedulerAssumption
         DEF TypeInv, TypeOK, SharedOK, entryVars, drrVars, shardVars
    <2>7. \E l \in {"release", "notify"} : Moves(k, l, loc[k])
      BY <1>1, <1>3, Stay DEF CancelMark, Close, TypeInv
    <2> QED
      BY <1>1, <2>6, <2>7, ClientFrame
  <1> QED
    BY <1>2, <1>3

LEMMA ExpireType ==
  ASSUME TypeInv, Expire
  PROVE  TypeInv'
  <1>1. UNCHANGED <<mode, slotVars, task, queue, fate, drrVars, shardVars, lock,
                    current, pc, freed, loc>>
    BY DEF Expire
  <1>2. late' \subseteq DOMAIN task
    <2>1. PICK x \in DOMAIN task : late' = late \cup {x}
      BY DEF Expire, Entries
    <2> QED
      BY <2>1 DEF TypeInv, TypeOK, SharedOK
  <1>3. TypeOK'
    BY <1>1, <1>2 DEF TypeInv, TypeOK, SharedOK, slotVars, drrVars, shardVars
  <1>4. MutualExclusion' /\ VisitsCovered' /\ LocalsSet'
    BY <1>1 DEF TypeInv, MutualExclusion, VisitsCovered, LocalsSet, Locking,
                HeldShard, JobShard, Weighing, drrVars
  <1> QED
    BY <1>3, <1>4 DEF TypeInv

LEMMA PollType ==
  ASSUME TypeInv, NEW c \in Consumers,
         \/ Observe(c) \/ EnterTryDequeue(c) \/ NoTask(c) \/ Doze(c) \/ WakeUp(c)
  PROVE  TypeInv'
  <1>1. /\ c \in Procs /\ loc[c] \in LocType
        /\ Fresh \in LocType /\ Fresh.then = "idle"
    BY LocFields, FreshType DEF TypeInv, Procs
  <1>2. UNCHANGED <<mode, slotVars, entryVars, drrVars, shardVars, lock, freed>>
    BY DEF Observe, EnterTryDequeue, NoTask, Doze, WakeUp
  <1>3. current' \subseteq Procs
    BY <1>1 DEF Observe, EnterTryDequeue, NoTask, Doze, WakeUp, TypeInv, TypeOK,
                SharedOK
  <1>4. SharedOK' /\ UNCHANGED <<task, lock, ring>>
    BY <1>2, <1>3
       DEF TypeInv, TypeOK, SharedOK, slotVars, entryVars, drrVars, shardVars
  <1>5. \E l \in {"enter", "pop", "closed", "doze", "again", "wait", "idle"},
           v \in LocType : Moves(c, l, v) /\ (l = "idle" => v.then = "idle")
    <2>1. CASE EnterTryDequeue(c) /\ mode # "immediate"
      <3> DEFINE v == [loc[c] EXCEPT !.left = Len(activeShards)]
      <3>1. Len(activeShards) \in Nat
        BY DEF TypeInv, TypeOK, SharedOK
      <3>2. v \in LocType
        BY <1>1, <3>1 DEF LocType
      <3>3. Moves(c, "pop", v)
        BY <1>1, <2>1 DEF EnterTryDequeue, Goto, Moves, TypeInv, TypeOK
      <3> HIDE DEF v
      <3> QED
        BY <3>2, <3>3
    <2>2. CASE ~(EnterTryDequeue(c) /\ mode # "immediate")
      <3>1. \/ \E l \in {"enter", "doze", "again"} : Moves(c, l, loc[c])
            \/ \E l \in {"closed", "again", "wait", "idle"} : Moves(c, l, Fresh)
        BY <1>1, <2>2, Stay
           DEF Observe, EnterTryDequeue, NoTask, Doze, WakeUp, ReturnClosed,
               TypeInv, Goto, Moves
      <3> QED
        BY <1>1, <3>1
    <2> QED
      BY <2>1, <2>2
  <1>6. {"enter", "pop", "closed", "doze", "again", "wait", "idle"}
          \subseteq Labels \ {"mark"}
    BY DEF Labels
  <1> QED
    BY <1>4, <1>5, <1>6, ConsumerFrame

LEMMA PopShardType ==
  ASSUME TypeInv, NEW c \in Consumers, PopShard(c)
  PROVE  TypeInv'
  <1>1. c \in Procs /\ loc[c] \in LocType /\ activeShards \in Seq(Shards)
    BY LocFields DEF TypeInv, TypeOK, SharedOK, Procs
  <1>2. UNCHANGED <<mode, slotVars, entryVars, drrVars, shardActive, lock,
                    current, freed>>
    BY DEF PopShard
  <1>3. CASE loc[c].left = 0 \/ activeShards = <<>>
    <2>1. Moves(c, "empty", loc[c]) /\ activeShards' = activeShards
      BY <1>1, <1>3, Stay DEF PopShard, TypeInv
    <2>2. SharedOK' /\ UNCHANGED <<task, lock, ring>>
      BY <1>2, <2>1 DEF TypeInv, TypeOK, SharedOK, slotVars, entryVars, drrVars
    <2>3. "empty" \in Labels \ {"mark"}
      BY DEF Labels
    <2> QED
      BY <1>1, <2>1, <2>2, <2>3, ConsumerFrame
  <1>4. CASE ~(loc[c].left = 0 \/ activeShards = <<>>)
    <2> DEFINE v == [loc[c] EXCEPT !.shard = Head(activeShards), !.left = @ - 1]
    <2>1. Head(activeShards) \in Shards /\ Tail(activeShards) \in Seq(Shards)
      BY <1>1, <1>4, SeqOps
    <2>2. v \in LocType
      <3>1. loc[c].left - 1 \in Nat
        BY <1>1, <1>4 DEF LocType
      <3> QED
        BY <1>1, <2>1, <3>1 DEF LocType
    <2>3. /\ loc' = [loc EXCEPT ![c].shard = Head(activeShards), ![c].left = @ - 1]
          /\ Goto(c, "grab") /\ activeShards' = Tail(activeShards)
      BY <1>4 DEF PopShard
    <2>4. Moves(c, "grab", v)
      BY <1>1, <2>3 DEF Goto, Moves, TypeInv, TypeOK
    <2>5. SharedOK' /\ UNCHANGED <<task, lock, ring>>
      BY <1>2, <2>1, <2>3 DEF TypeInv, TypeOK, SharedOK, slotVars, entryVars, drrVars
    <2>6. "grab" \in Labels \ {"mark"}
      BY DEF Labels
    <2> HIDE DEF v
    <2> QED
      BY <2>2, <2>4, <2>5, <2>6, ConsumerFrame
  <1> QED
    BY <1>3, <1>4

\* The consumer turns to the next level with work, or to leaving the shard.
LEMMA SeekLevelType ==
  ASSUME TypeInv, SharedOK', NEW c \in Consumers, NEW i \in Nat,
         SeekLevel(c, i), lock'[loc[c].shard] = c, ring' = ring, task' = task,
         \A s \in Shards : lock'[s] = lock[s] \/ lock[s] \in {NoProc, c}
  PROVE  TypeInv'
  <1> DEFINE s == loc[c].shard
             levels == {k \in i .. 2 : ring[s][k] # <<>>}
             first == Front(levels)
             v == [loc[c] EXCEPT !.level = first, !.visits = Len(ring[s][first])]
  <1>1. c \in Procs /\ loc[c] \in LocType /\ s \in Shards
    BY LocFields DEF TypeInv, Procs
  <1>2. {"leave", "scan"} \subseteq Labels \ {"mark"}
    BY DEF Labels
  <1>3. CASE levels = {}
    <2>1. Moves(c, "leave", loc[c])
      BY <1>1, <1>3, Stay DEF SeekLevel, TypeInv
    <2> QED
      BY <1>1, <1>2, <2>1, ConsumerFrame
  <1>4. CASE levels # {}
    <2>1. levels \subseteq Nat /\ levels \subseteq Prios
      BY DEF Prios
    <2>2. first \in Prios
      BY <1>4, <2>1, FrontInQueue
    <2>3. Len(ring[s][first]) \in Nat
      BY <1>1, <2>2, SeqOps DEF TypeInv, TypeOK, SharedOK
    <2>4. Goto(c, "scan") /\ loc' = [loc EXCEPT ![c].level = first,
                                              ![c].visits = Len(ring[s][first])]
      BY <1>4 DEF SeekLevel
    <2> HIDE DEF first
    <2>5. v \in LocType /\ v.shard = s /\ v.level = first
          /\ v.visits = Len(ring[s][first])
      BY <1>1, <2>2, <2>3 DEF LocType
    <2>6. Moves(c, "scan", v)
      BY <1>1, <2>4 DEF Goto, Moves, TypeInv, TypeOK
    <2> HIDE DEF v
    <2> QED
      BY <1>2, <2>3, <2>5, <2>6, ConsumerFrame
  <1> QED
    BY <1>3, <1>4

LEMMA SeekType ==
  ASSUME TypeInv, NEW c \in Consumers, LockForDequeue(c) \/ NextLevel(c)
  PROVE  TypeInv'
  <1>1. /\ c \in Procs /\ c \notin Producers /\ loc[c].shard \in Shards
        /\ loc[c].level \in Prios
    BY LocFields, SchedulerAssumption DEF TypeInv, Procs
  <1>2. UNCHANGED <<mode, slotVars, entryVars, drrVars, shardVars, current, freed>>
    BY DEF LockForDequeue, NextLevel
  <1>3. /\ lock' \in [Shards -> Procs \cup {NoProc}] /\ lock'[loc[c].shard] = c
        /\ \A s \in Shards : lock'[s] = lock[s] \/ lock[s] \in {NoProc, c}
    <2>1. CASE LockForDequeue(c)
      BY <1>1, <2>1 DEF LockForDequeue, TypeInv, TypeOK, SharedOK
    <2>2. CASE NextLevel(c)
      BY <1>1, <2>2 DEF NextLevel, TypeInv, TypeOK, SharedOK, MutualExclusion,
                        Locking, HeldShard
    <2> QED
      BY <2>1, <2>2
  <1>4. SharedOK' /\ ring' = ring /\ task' = task
    BY <1>2, <1>3
       DEF TypeInv, TypeOK, SharedOK, slotVars, entryVars, drrVars, shardVars
  <1>5. \E i \in Nat : SeekLevel(c, i)
    BY <1>1 DEF LockForDequeue, NextLevel, Prios
  <1> QED
    BY <1>3, <1>4, <1>5, SeekLevelType

LEMMA VisitType ==
  ASSUME TypeInv, NEW c \in Consumers, Visit(c)
  PROVE  TypeInv'
  <1> DEFINE s == loc[c].shard
             i == loc[c].level
             t == Head(ring[s][i])
             removed == DeadPrefix(queue[t][i])
             expired == Live(removed \ cancelled)
             v == [loc[c] EXCEPT !.visits = @ - 1, !.then = "weigh"]
  <1>1. /\ c \in Procs /\ c \notin Producers /\ loc[c] \in LocType
        /\ s \in Shards /\ i \in Prios /\ lock[s] = c
        /\ loc[c].visits <= Len(ring[s][i])
        /\ loc[c].visits \in Nat /\ loc[c].visits > 0
    <2>1. c \in Procs /\ c \notin Producers
      BY SchedulerAssumption DEF Procs
    <2>2. pc[c] = "scan" /\ loc[c].visits > 0
      BY DEF Visit
    <2> QED
      BY <2>1, <2>2, LocFields
         DEF TypeInv, MutualExclusion, Locking, HeldShard, VisitsCovered
  <1>2. t \in Tenants /\ Len(ring[s][i]) \in Nat
    <2>1. ring[s][i] \in Seq(Tenants)
      BY <1>1 DEF TypeInv, TypeOK, SharedOK
    <2>2. ring[s][i] # <<>>
      BY <1>1, <2>1
    <2> QED
      BY <2>1, <2>2, SeqOps
  <1>3. /\ queue' = [queue EXCEPT ![t][i] = @ \ removed]
        /\ cancelled' = cancelled \ removed /\ pending' = pending \ expired
        /\ fate' = [x \in Ids |-> IF x \in expired THEN "expired" ELSE fate[x]]
        /\ freed' = [freed EXCEPT ![c] = expired]
        /\ UNCHANGED <<mode, estimate, task, late, drrVars, shardVars, lock, current>>
    BY DEF Visit
  <1>4. expired \subseteq pending
    BY DEF Live
  <1>5. v \in LocType /\ v.shard = s /\ v.level = i /\ v.visits < Len(ring[s][i])
    <2> DEFINE left == loc[c].visits - 1
    <2>1. left \in Nat /\ left < Len(ring[s][i])
      BY <1>1, <1>2
    <2>2. v = [loc[c] EXCEPT !.visits = left, !.then = "weigh"]
      OBVIOUS
    <2> HIDE DEF v, left
    <2> QED
      BY <1>1, <2>1, <2>2 DEF LocType
  <1>6. Moves(c, "weigh", v) \/ Moves(c, "release", v)
    BY <1>1 DEF Visit, Goto, Moves, TypeInv, TypeOK
  <1> HIDE DEF v, removed, expired, t
  <1>7. SharedOK'
    <2>1. queue' \in [Tenants -> [Prios -> SUBSET DOMAIN task]]
      <3>1. queue[t][i] \ removed \in SUBSET DOMAIN task
        BY <1>1, <1>2 DEF TypeInv, TypeOK, SharedOK
      <3>2. [queue[t] EXCEPT ![i] = queue[t][i] \ removed] \in [Prios -> SUBSET DOMAIN task]
        BY <1>1, <1>2, <3>1 DEF TypeInv, TypeOK, SharedOK
      <3> QED
        BY <1>1, <1>2, <1>3, <3>2 DEF TypeInv, TypeOK, SharedOK
    <2>2. fate' \in [Ids -> Fates]
      BY <1>3 DEF TypeInv, TypeOK, SharedOK, Fates
    <2> QED
      BY <1>3, <1>4, <2>1, <2>2 DEF TypeInv, TypeOK, SharedOK, drrVars, shardVars
  <1>8. lock' = lock /\ ring' = ring /\ task' = task
    BY <1>3 DEF drrVars
  <1>9. {"weigh", "release"} \subseteq Labels \ {"mark"}
    BY DEF Labels
  <1> QED
    BY <1>1, <1>5, <1>6, <1>7, <1>8, <1>9, ConsumerFrame

LEMMA WeighType ==
  ASSUME TypeInv, NEW c \in Consumers, Weigh(c)
  PROVE  TypeInv'
  <1> DEFINE s == loc[c].shard
             i == loc[c].level
             t == Head(ring[s][i])
             q == queue[t][i]
             x == Front(q)
             rest == Tail(ring[s][i])
             v == [loc[c] EXCEPT !.item = x]
  <1>1. /\ c \in Procs /\ c \notin Producers /\ loc[c] \in LocType
        /\ s \in Shards /\ i \in Prios /\ lock[s] = c
        /\ loc[c].visits < Len(ring[s][i]) /\ loc[c].visits \in Nat
    <2>1. c \in Procs /\ c \notin Producers
      BY SchedulerAssumption DEF Procs
    <2>2. pc[c] = "weigh"
      BY DEF Weigh
    <2> QED
      BY <2>1, <2>2, LocFields
         DEF TypeInv, MutualExclusion, Locking, HeldShard, VisitsCovered, Weighing
  <1>2. /\ t \in Tenants /\ Len(ring[s][i]) \in Nat /\ rest \in Seq(Tenants)
        /\ Len(rest) = Len(ring[s][i]) - 1 /\ Append(rest, t) \in Seq(Tenants)
        /\ Len(Append(rest, t)) = Len(ring[s][i])
    <2>1. ring[s][i] \in Seq(Tenants)
      BY <1>1 DEF TypeInv, TypeOK, SharedOK
    <2>2. ring[s][i] # <<>>
      BY <1>1, <2>1
    <2>3. t \in Tenants /\ rest \in Seq(Tenants) /\ Len(rest) = Len(ring[s][i]) - 1
      BY <2>1, <2>2, SeqOps
    <2>4. Append(rest, t) \in Seq(Tenants) /\ Len(Append(rest, t)) = Len(rest) + 1
      BY <2>3, SeqOps
    <2> QED
      BY <2>1, <2>3, <2>4, SeqOps
  <1>3. UNCHANGED <<mode, slotVars, task, late, fate, attempts, shardVars, lock,
                    current, freed>>
    BY DEF Weigh
  <1>4. PICK round \in {rest, Append(rest, t)} : ring' = [ring EXCEPT ![s][i] = round]
    BY DEF Weigh
  <1>5. active' = active \/ active' = [active EXCEPT ![t][i] = FALSE]
    BY DEF Weigh
  <1>6. deficit' = deficit \/ deficit' = [deficit EXCEPT ![t][i] = @ + Quantum[t]]
    BY DEF Weigh
  <1>7. queue' = queue \/ queue' = [queue EXCEPT ![t][i] = @ \ {x}]
    BY DEF Weigh
  <1>8. \/ Moves(c, "scan", loc[c])
        \/ q # {} /\ Moves(c, "commit", v)
    BY <1>1, Stay DEF Weigh, Goto, Moves, TypeInv, TypeOK
  <1>9. /\ q = queue[t][i] /\ x = Front(q)
        /\ s = loc[c].shard /\ i = loc[c].level
        /\ v = [loc[c] EXCEPT !.item = x]
    OBVIOUS
  <1> HIDE DEF s, i, t, q, x, rest, v
  <1>10. /\ ring' \in [Shards -> [Prios -> Seq(Tenants)]]
        /\ Len(ring'[s][i]) \in Nat /\ loc[c].visits <= Len(ring'[s][i])
        /\ \A z \in Shards : z # s => ring'[z] = ring[z]
    <2>1. PICK l, w \in Nat : l = Len(ring[s][i]) /\ w = loc[c].visits /\ w < l
      BY <1>1, <1>2
    <2>2. round \in Seq(Tenants) /\ Len(round) \in {l - 1, l}
      BY <1>2, <1>4, <2>1
    <2>3. l - 1 \in Nat /\ w <= l - 1 /\ w <= l
      BY <2>1
    <2>4. Len(round) \in Nat /\ loc[c].visits <= Len(round)
      BY <2>1, <2>2, <2>3
    <2>5. SharedOK
      BY DEF TypeInv, TypeOK
    <2>6. /\ ring' \in [Shards -> [Prios -> Seq(Tenants)]] /\ ring'[s][i] = round
          /\ \A z \in Shards : z # s => ring'[z] = ring[z]
      BY <1>1, <1>4, <2>2, <2>5, RingType
    <2> QED
      BY <2>4, <2>6
  <1>11. q # {} => x \in DOMAIN task /\ x \in Nat
    <2>1. q \in SUBSET DOMAIN task /\ DOMAIN task \subseteq Nat
      BY <1>1, <1>2, <1>9 DEF TypeInv, TypeOK, SharedOK
    <2> QED
      BY <1>9, <2>1, FrontInQueue
  <1>12. SharedOK'
    <2>1. active' \in [Tenants -> [Prios -> BOOLEAN]]
      <3>1. active \in [Tenants -> [Prios -> BOOLEAN]] /\ FALSE \in BOOLEAN
        BY DEF TypeInv, TypeOK, SharedOK
      <3> QED
        BY ONLY <1>1, <1>2, <1>5, <3>1, TableType
    <2>2. deficit' \in [Tenants -> [Prios -> Int]]
      <3>1. deficit \in [Tenants -> [Prios -> Int]]
        BY DEF TypeInv, TypeOK, SharedOK
      <3>2. deficit[t][i] + Quantum[t] \in Int
        BY <1>1, <1>2, <3>1, SchedulerAssumption
      <3> QED
        BY ONLY <1>1, <1>2, <1>6, <3>1, <3>2, TableType
    <2>3. queue' \in [Tenants -> [Prios -> SUBSET DOMAIN task]]
      <3>1. queue \in [Tenants -> [Prios -> SUBSET DOMAIN task]]
        BY DEF TypeInv, TypeOK, SharedOK
      <3>2. queue[t][i] \ {x} \in SUBSET DOMAIN task
        BY <1>1, <1>2, <3>1
      <3> QED
        BY ONLY <1>1, <1>2, <1>7, <3>1, <3>2, TableType
    <2> QED
      BY <1>3, <1>10, <2>1, <2>2, <2>3
         DEF TypeInv, TypeOK, SharedOK, slotVars, shardVars
  <1>13. q # {} => /\ v \in LocType /\ v.shard = s /\ v.level = i
                   /\ v.visits = loc[c].visits /\ v.item \in DOMAIN task
    BY <1>1, <1>11, <1>9 DEF LocType
  <1>14. {"scan", "commit"} \subseteq Labels \ {"mark"}
    BY DEF Labels
  <1> QED
    BY <1>1, <1>3, <1>10, <1>8, <1>12, <1>13, <1>14, <1>9, ConsumerFrame

LEMMA CommitType ==
  ASSUME TypeInv, NEW c \in Consumers, Commit(c)
  PROVE  TypeInv'
  <1> DEFINE s == loc[c].shard
             i == loc[c].level
             x == loc[c].item
             t == task[x].tenant
             v == [loc[c] EXCEPT !.then = "leave"]
             w == [loc[c] EXCEPT !.item = 0]
  <1>1. /\ c \in Procs /\ c \notin Producers /\ loc[c] \in LocType
        /\ s \in Shards /\ i \in Prios /\ lock[s] = c
        /\ loc[c].visits <= Len(ring[s][i]) /\ x \in DOMAIN task
    <2>1. c \in Procs /\ c \notin Producers
      BY SchedulerAssumption DEF Procs
    <2>2. pc[c] = "commit"
      BY DEF Commit
    <2> QED
      BY <2>1, <2>2, LocFields
         DEF TypeInv, MutualExclusion, Locking, HeldShard, VisitsCovered, LocalsSet
  <1>2. t \in Tenants /\ task[x].cost \in Nat
    BY <1>1, RequestType DEF TypeInv, TypeOK, SharedOK
  <1>3. UNCHANGED <<mode, estimate, task, late, queue, active, attempts, ring,
                    shardVars, lock, current>>
    BY DEF Commit
  <1>4. cancelled' \subseteq cancelled /\ pending' \subseteq pending
    BY DEF Commit
  <1>5. fate' = fate \/ fate' = [fate EXCEPT ![x] = "delivered"]
    BY DEF Commit
  <1>6. \/ deficit' = deficit
        \/ deficit' = [deficit EXCEPT ![t][i] = @ - task[x].cost]
    BY DEF Commit
  <1>7. freed' = freed \/ freed' = [freed EXCEPT ![c] = {x}]
    BY DEF Commit
  <1>8. Moves(c, "release", v) \/ Moves(c, "scan", w)
    BY <1>1 DEF Commit, Goto, Moves, TypeInv, TypeOK
  <1>9. /\ s = loc[c].shard /\ i = loc[c].level
        /\ v = [loc[c] EXCEPT !.then = "leave"] /\ w = [loc[c] EXCEPT !.item = 0]
    OBVIOUS
  <1> HIDE DEF s, i, x, t, v, w
  <1>10. /\ v \in LocType /\ v.shard = s /\ v.then = "leave"
         /\ w \in LocType /\ w.shard = s /\ w.level = i /\ w.visits = loc[c].visits
    BY <1>1, <1>9 DEF LocType
  <1>11. SharedOK'
    <2>1. deficit' \in [Tenants -> [Prios -> Int]]
      <3>1. deficit \in [Tenants -> [Prios -> Int]]
        BY DEF TypeInv, TypeOK, SharedOK
      <3>2. deficit[t][i] - task[x].cost \in Int
        BY <1>1, <1>2, <3>1
      <3> QED
        BY ONLY <1>1, <1>2, <1>6, <3>1, <3>2, TableType
    <2>2. fate' \in [Ids -> Fates]
      BY <1>5 DEF TypeInv, TypeOK, SharedOK, Fates
    <2>3. freed' \in [Procs -> SUBSET DOMAIN task]
      <3>1. freed \in [Procs -> SUBSET DOMAIN task]
        BY DEF TypeInv, TypeOK, SharedOK
      <3>2. {x} \in SUBSET DOMAIN task /\ c \in Procs
        BY <1>1
      <3> QED
        BY ONLY <1>7, <3>1, <3>2
    <2>4. cancelled' \subseteq DOMAIN task /\ pending' \subseteq DOMAIN task
      BY <1>4 DEF TypeInv, TypeOK, SharedOK
    <2> QED
      BY <1>3, <2>1, <2>2, <2>3, <2>4 DEF TypeInv, TypeOK, SharedOK, shardVars
  <1>12. {"scan", "release"} \subseteq Labels \ {"mark"}
    BY DEF Labels
  <1> QED
    BY <1>1, <1>3, <1>8, <1>10, <1>11, <1>12, ConsumerFrame

LEMMA LeaveType ==
  ASSUME TypeInv, NEW c \in Consumers, LeaveShard(c) \/ PutBackShard(c)
  PROVE  TypeInv'
  <1> DEFINE s == loc[c].shard
             v == [Fresh EXCEPT !.left = loc[c].left]
  <1>1. /\ c \in Procs /\ c \notin Producers /\ loc[c] \in LocType /\ s \in Shards
        /\ Fresh \in LocType /\ Fresh.then = "idle" /\ loc[c].left \in Nat
    BY LocFields, FreshType, SchedulerAssumption DEF TypeInv, Procs
  <1>2. v \in LocType
    BY <1>1 DEF LocType
  <1>3. UNCHANGED <<mode, slotVars, entryVars, drrVars, current, freed>>
    BY DEF LeaveShard, PutBackShard
  <1>4. /\ activeShards' = activeShards \/ activeShards' = Append(activeShards, s)
        /\ shardActive' = shardActive \/ shardActive' = [shardActive EXCEPT ![s] = FALSE]
    BY DEF LeaveShard, PutBackShard
  <1>5. /\ lock' \in [Shards -> Procs \cup {NoProc}]
        /\ \A z \in Shards : lock'[z] = lock[z] \/ lock[z] = c
    <2>1. CASE LeaveShard(c)
      <3>1. lock[s] = c
        BY <1>1, <2>1 DEF LeaveShard, TypeInv, MutualExclusion, Locking, HeldShard
      <3> QED
        BY <1>1, <2>1, <3>1 DEF LeaveShard, Unlock, TypeInv, TypeOK, SharedOK
    <2>2. CASE PutBackShard(c)
      BY <2>2 DEF PutBackShard, TypeInv, TypeOK, SharedOK
    <2> QED
      BY <2>1, <2>2
  <1>6. SharedOK' /\ ring' = ring /\ task' = task
    <2>1. Append(activeShards, s) \in Seq(Shards)
      BY <1>1, SeqOps DEF TypeInv, TypeOK, SharedOK
    <2>2. activeShards' \in Seq(Shards) /\ shardActive' \in [Shards -> BOOLEAN]
      BY <1>1, <1>4, <2>1 DEF TypeInv, TypeOK, SharedOK
    <2> QED
      BY <1>3, <1>5, <2>2 DEF TypeInv, TypeOK, SharedOK, slotVars, entryVars, drrVars
  <1>7. \/ Moves(c, "putback", loc[c])
        \/ Moves(c, "idle", Fresh)
        \/ Moves(c, "pop", v)
    BY <1>1, Stay DEF LeaveShard, PutBackShard, ReturnOrGoOn, TypeInv, Goto, Moves
  <1>8. {"putback", "idle", "pop"} \subseteq Labels \ {"mark"}
    BY DEF Labels
  <1> HIDE DEF v
  <1> QED
    BY <1>1, <1>2, <1>5, <1>6, <1>7, <1>8, ConsumerFrame

-----------------------------------------------------------------------------
\* Every variable keeps its type; a thread that works on a shard holds its
\* mutex, and the pass of a consumer over a ring never runs past its end, so
\* that the pop_front in the loop of try_dequeue_from_shard finds a tenant.
THEOREM TypeCorrect == Spec => []TypeInv
  <1>1. Init => TypeInv
    BY InitType
  <1>2. TypeInv /\ [Next]_vars => TypeInv'
    <2> SUFFICES ASSUME TypeInv, [Next]_vars PROVE TypeInv'
      OBVIOUS
    <2>1. CASE \E p \in Producers : Enqueue(p) \/ ProducerStep(p)
      BY <2>1, BeginAttemptType, RetryEnqueueType, LockForEnqueueType, AdmitType,
         AdmitByDroppingType, ReserveType, PushType, ActivateType
         DEF Enqueue, ProducerStep
    <2>2. CASE \E c \in Consumers : ConsumerStep(c)
      BY <2>2, PollType, PopShardType, SeekType, VisitType, WeighType, CommitType,
         LeaveType DEF ConsumerStep
    <2>3. CASE \/ \E k \in Cancellers : CancelTake(k) \/ CancelMark(k)
               \/ \E k \in Closers : Close(k)
      BY <2>3, ClientType
    <2>4. CASE \E p \in Procs : Release(p) \/ NotifyAll(p)
      BY <2>4, ReleaseType, NotifyType
    <2>5. CASE Expire
      BY <2>5, ExpireType
    <2>6. CASE UNCHANGED vars
      BY <2>6 DEF vars, slotVars, entryVars, drrVars, shardVars, TypeInv, TypeOK,
                  SharedOK, MutualExclusion, VisitsCovered, LocalsSet, Locking,
                  HeldShard, JobShard, Weighing
    <2> QED
      BY <2>1, <2>2, <2>3, <2>4, <2>5, <2>6 DEF Next
  <1> QED
    BY <1>1, <1>2, PTL DEF Spec

-----------------------------------------------------------------------------
(* Slot accounting. *)


\* The sets whose sizes are counted are finite.
LEMMA Finiteness ==
  ASSUME SlotInv
  PROVE  /\ Owed \subseteq DOMAIN task /\ IsFiniteSet(Owed)
         /\ IsFiniteSet(Pushing)
         /\ Cardinality(Owed) \in Nat /\ Cardinality(Pushing) \in Nat
  <1>1. DOMAIN task = 1 .. Len(task) /\ Len(task) \in Nat
    BY DEF SlotInv
  <1>2. IsFiniteSet(DOMAIN task)
    BY <1>1, FS_Interval
  <1>3. Owed \subseteq DOMAIN task
    BY DEF SlotInv, Owed
  <1>4. Pushing \subseteq Procs /\ IsFiniteSet(Procs)
    BY SchedulerAssumption DEF Pushing, Procs
  <1> QED
    BY <1>2, <1>3, <1>4, FS_Subset, FS_CardinalityType

\* A step that touches no slot.
LEMMA Neutral ==
  ASSUME SlotInv, NEW p \in Procs, NEW l \in Labels,
         pc' = [pc EXCEPT ![p] = l], pc[p] # "push", l # "push",
         freed[p] = {} \/ l \in Releasing,
         UNCHANGED <<estimate, pending, task, freed>>
  PROVE  SlotInv'
  <1>1. Pushing' = Pushing
    BY DEF Pushing, SlotInv, Procs
  <1>2. Owed' = Owed
    BY DEF Owed
  <1>3. SlotsExact'
    BY <1>1, <1>2 DEF SlotInv, SlotsExact
  <1> QED
    BY <1>3 DEF SlotInv

\* Settling the live tasks S: their slots become p's to release.
LEMMA Transfer ==
  ASSUME SlotInv, NEW p \in Procs, NEW l \in Labels, NEW S \in SUBSET pending,
         pc' = [pc EXCEPT ![p] = l], pc[p] # "push", l # "push",
         freed[p] = {}, S = {} \/ l \in Releasing,
         pending' = pending \ S, freed' = [freed EXCEPT ![p] = S],
         UNCHANGED <<estimate, task>>
  PROVE  SlotInv'
  <1>1. Pushing' = Pushing
    BY DEF Pushing, SlotInv, Procs
  <1>2. Owed' = Owed
    <2>1. ASSUME NEW x
          PROVE  (\E q \in Procs : x \in freed'[q])
                   <=> x \in S \/ \E q \in Procs : x \in freed[q]
      BY DEF SlotInv
    <2>2. \A x : x \in Owed' <=> x \in pending \ S
                                  \/ \E q \in Procs : x \in freed'[q]
      BY Zenon DEF Owed
    <2>3. \A x : x \in Owed <=> x \in pending \/ \E q \in Procs : x \in freed[q]
      BY Zenon DEF Owed
    <2> QED
      BY <2>1, <2>2, <2>3
  <1>3. SlotsExact'
    BY <1>1, <1>2 DEF SlotInv, SlotsExact
  <1> QED
    BY <1>3 DEF SlotInv

\* Releasing the slots of p: the counter goes down by as many, and is never too
\* small for that.
LEMMA Discharge ==
  ASSUME SlotInv, NEW p \in Procs, NEW l \in Labels,
         pc' = [pc EXCEPT ![p] = l], pc[p] # "push", l # "push",
         estimate' = IF Cardinality(freed[p]) <= estimate
                     THEN estimate - Cardinality(freed[p]) ELSE 0,
         freed' = [freed EXCEPT ![p] = {}],
         UNCHANGED <<pending, task>>
  PROVE  SlotInv'
  <1>1. Pushing' = Pushing
    BY DEF Pushing, SlotInv, Procs
  <1>2. Owed' = Owed \ freed[p]
    <2>1. \A x : x \in Owed' <=> x \in pending \/ \E q \in Procs : x \in freed'[q]
      BY Zenon DEF Owed
    <2>2. \A x : x \in Owed <=> x \in pending \/ \E q \in Procs : x \in freed[q]
      BY Zenon DEF Owed
    <2>3. \A q \in Procs : freed'[q] = IF q = p THEN {} ELSE freed[q]
      BY DEF SlotInv
    <2>4. \A x \in freed[p] : x \notin pending
                              /\ \A q \in Procs : q # p => x \notin freed[q]
      BY DEF SlotInv, SlotsExact
    <2> QED
      BY <2>1, <2>2, <2>3, <2>4
  <1>3. /\ IsFiniteSet(Owed) /\ Cardinality(Owed) \in Nat
        /\ Cardinality(Pushing) \in Nat /\ freed[p] \subseteq Owed
    BY Finiteness DEF Owed
  <1>4. /\ Cardinality(freed[p]) \in Nat
        /\ Cardinality(freed[p]) <= Cardinality(Owed)
        /\ Cardinality(Owed') = Cardinality(Owed) - Cardinality(freed[p])
    <2>1. Owed \cap freed[p] = freed[p]
      BY <1>3
    <2>2. /\ Cardinality(freed[p]) \in Nat
          /\ Cardinality(freed[p]) <= Cardinality(Owed)
      BY <1>3, FS_Subset, FS_CardinalityType
    <2>3. Cardinality(Owed \ freed[p])
            = Cardinality(Owed) - Cardinality(Owed \cap freed[p])
      BY <1>3, FS_Difference
    <2> QED
      BY <1>2, <2>1, <2>2, <2>3
  <1>5. estimate = Cardinality(Owed) + Cardinality(Pushing) /\ estimate \in Nat
    BY DEF SlotInv, SlotsExact
  <1>6. estimate' = Cardinality(Owed') + Cardinality(Pushing') /\ estimate' <= estimate
        /\ estimate' \in Nat
    BY <1>1, <1>3, <1>4, <1>5
  <1>7. SlotsExact'
    BY <1>6 DEF SlotInv, SlotsExact
  <1> QED
    BY <1>6, <1>7, SchedulerAssumption DEF SlotInv

\* A producer that turns to push adds one to the slots reserved for a push.
LEMMA TurnToPush ==
  ASSUME SlotInv, NEW p \in Producers, pc[p] # "push",
         pc' = [pc EXCEPT ![p] = "push"]
  PROVE  Cardinality(Pushing') = Cardinality(Pushing) + 1
  <1>1. Pushing' = Pushing \cup {p} /\ p \notin Pushing
    BY DEF Pushing, SlotInv, Procs
  <1> QED
    BY <1>1, Finiteness, FS_AddElement

\* try_reserve_slot succeeds.
LEMMA ReserveOne ==
  ASSUME SlotInv, NEW p \in Producers, pc[p] # "push", freed[p] = {},
         SlotFree, estimate' = estimate + 1,
         pc' = [pc EXCEPT ![p] = "push"],
         UNCHANGED <<pending, task, freed>>
  PROVE  SlotInv'
  <1>1. Owed' = Owed
    BY DEF Owed
  <1>2. Cardinality(Pushing') = Cardinality(Pushing) + 1
    BY TurnToPush
  <1>3. estimate' = Cardinality(Owed') + Cardinality(Pushing')
    BY <1>1, <1>2, Finiteness DEF SlotInv, SlotsExact
  <1>4. SlotsExact'
    BY <1>3 DEF SlotInv, SlotsExact
  <1>5. "push" \in Labels /\ p \in Procs
    BY DEF Labels, Procs
  <1> QED
    BY <1>4, <1>5, SchedulerAssumption DEF SlotInv, SlotFree

\* A dropped task hands its slot to the push.
LEMMA Handover ==
  ASSUME SlotInv, NEW p \in Producers, pc[p] # "push", freed[p] = {},
         NEW v \in pending, pending' = pending \ {v},
         pc' = [pc EXCEPT ![p] = "push"],
         UNCHANGED <<estimate, task, freed>>
  PROVE  SlotInv'
  <1>1. Owed' = Owed \ {v} /\ v \in Owed
    BY DEF Owed, SlotInv, SlotsExact
  <1>2. Cardinality(Owed') = Cardinality(Owed) - 1
    BY <1>1, Finiteness, FS_RemoveElement
  <1>3. Cardinality(Pushing') = Cardinality(Pushing) + 1
    BY TurnToPush
  <1>4. estimate' = Cardinality(Owed') + Cardinality(Pushing')
    BY <1>2, <1>3, Finiteness DEF SlotInv, SlotsExact
  <1>5. SlotsExact'
    BY <1>4 DEF SlotInv, SlotsExact
  <1>6. "push" \in Labels /\ p \in Procs
    BY DEF Labels, Procs
  <1> QED
    BY <1>5, <1>6 DEF SlotInv

\* The push uses the reserved slot for a task with a new handle.
LEMMA Fill ==
  ASSUME SlotInv, NEW p \in Producers, NEW l \in Labels, NEW r \in Requests,
         pc[p] = "push", l # "push", pc' = [pc EXCEPT ![p] = l],
         task' = Append(task, r), pending' = pending \cup {Len(task) + 1},
         UNCHANGED <<estimate, freed>>
  PROVE  SlotInv'
  <1> DEFINE x == Len(task) + 1
  <1>1. /\ Len(task) \in Nat /\ DOMAIN task = 1 .. Len(task)
        /\ task' \in Seq(Requests) /\ DOMAIN task' = 1 .. x
    BY DEF SlotInv
  <1>2. x \notin Owed
    BY <1>1, Finiteness
  <1>3. Owed' = Owed \cup {x}
    BY DEF Owed
  <1>4. Cardinality(Owed') = Cardinality(Owed) + 1
    BY <1>2, <1>3, Finiteness, FS_AddElement
  <1>5. Pushing' = Pushing \ {p} /\ p \in Pushing
    BY DEF Pushing, SlotInv, Procs
  <1>6. Cardinality(Pushing') = Cardinality(Pushing) - 1
    BY <1>5, Finiteness, FS_RemoveElement
  <1>7. \A q \in Procs : x \notin freed[q]
    BY <1>2 DEF Owed
  <1>8. SlotsExact'
    BY <1>4, <1>6, <1>7, Finiteness DEF SlotInv, SlotsExact
  <1>9. freed[p] = {} /\ p \in Procs
    BY DEF SlotInv, Procs, Releasing
  <1> QED
    BY <1>1, <1>8, <1>9 DEF SlotInv

-----------------------------------------------------------------------------
(* Each action is one of these steps. *)

\* A process that is neither cancelling nor releasing owes no slot.
LEMMA OwesNothing ==
  ASSUME SlotInv, NEW p \in Procs, pc[p] \notin Releasing
  PROVE  freed[p] = {}
  BY DEF SlotInv

\* What a call that is refused, and a call that returns, do to pc.
LEMMA Turns ==
  ASSUME NEW p \in Procs
  PROVE  /\ \A l : Goto(p, l) => pc' = [pc EXCEPT ![p] = l]
         /\ Return(p) => pc' = [pc EXCEPT ![p] = "idle"]
         /\ Refuse(p) => \E l \in {"idle", "wait"} : pc' = [pc EXCEPT ![p] = l]
  BY DEF Goto, Return, Refuse

\* The steps of a call that only looks, locks, queues, wakes or moves shards.
LEMMA QuietSlots ==
  ASSUME SlotInv, NEW p \in Procs,
         pc[p] \notin Releasing \cup {"push"},
         NEW l \in Labels, l # "push", pc' = [pc EXCEPT ![p] = l],
         UNCHANGED <<estimate, pending, task, freed>>
  PROVE  SlotInv'
  BY OwesNothing, Neutral

LEMMA PurgeSlots ==
  ASSUME SlotInv, NEW p \in Procs, NEW t, NEW budget,
         pc[p] \notin Releasing \cup {"push"}, Purge(p, t, budget),
         NEW l \in Labels, l # "push", pc' = [pc EXCEPT ![p] = l],
         freed'[p] = {} \/ l \in Releasing,
         UNCHANGED <<estimate, task>>
  PROVE  SlotInv'
  <1>1. PICK S \in SUBSET pending : pending' = pending \ S
                                   /\ freed' = [freed EXCEPT ![p] = S]
    BY DEF Purge, Live
  <1>2. freed'[p] = S /\ freed[p] = {}
    BY <1>1, OwesNothing DEF SlotInv
  <1> QED
    BY <1>1, <1>2, Transfer

LEMMA EnqueueSlots ==
  ASSUME SlotInv, NEW p \in Producers,
         Enqueue(p) \/ RetryEnqueue(p) \/ Admit(p) \/ Activate(p) \/ Publish(p)
  PROVE  SlotInv'
  <1>1. p \in Procs /\ pc[p] \notin Releasing \cup {"push"}
    BY DEF Procs, Releasing, Enqueue, RetryEnqueue, Admit, Activate, Publish
  <1>2. UNCHANGED <<estimate, pending, task, freed>>
    BY DEF Enqueue, BeginAttempt, RetryEnqueue, Admit, Activate, Publish,
           slotVars, entryVars
  <1>3. \E l \in {"lock", "idle", "wait", "reserve", "publish", "notify"} :
          pc' = [pc EXCEPT ![p] = l]
    BY <1>1, Turns DEF Enqueue, BeginAttempt, RetryEnqueue, Admit, Activate,
                       Publish, AfterActivation
  <1>4. {"lock", "idle", "wait", "reserve", "publish", "notify"} \subseteq Labels
    BY DEF Labels
  <1> QED
    BY <1>1, <1>2, <1>3, <1>4, QuietSlots

LEMMA LockSlots ==
  ASSUME SlotInv, NEW p \in Producers, LockForEnqueue(p)
  PROVE  SlotInv'
  <1> DEFINE t == loc[p].job.tenant
  <1>1. p \in Procs /\ pc[p] \notin Releasing \cup {"push"}
    BY DEF Procs, Releasing, LockForEnqueue
  <1>2. {"idle", "admit", "release"} \subseteq Labels
    BY DEF Labels
  <1>3. task' = task /\ estimate' = estimate
    BY DEF LockForEnqueue, slotVars
  <1>4. CASE mode # "open"
    <2>1. pc' = [pc EXCEPT ![p] = "idle"] /\ pending' = pending /\ freed' = freed
      BY <1>1, <1>4, Turns DEF LockForEnqueue, slotVars
    <2> QED
      BY <1>1, <1>2, <1>3, <2>1, QuietSlots
  <1>5. CASE mode = "open" /\ PurgeReason(t) = "none"
    <2>1. pending' = pending /\ freed' = freed
      BY <1>5 DEF LockForEnqueue
    <2>2. \E l \in {"admit", "release"} : pc' = [pc EXCEPT ![p] = l]
      BY <1>5 DEF LockForEnqueue, Goto
    <2> QED
      BY <1>1, <1>2, <1>3, <2>1, <2>2, QuietSlots
  <1>6. CASE mode = "open" /\ PurgeReason(t) # "none"
    <2>1. Purge(p, t, Budget(PurgeReason(t)))
      BY <1>6 DEF LockForEnqueue
    <2>2. \/ pc' = [pc EXCEPT ![p] = "admit"] /\ freed'[p] = {}
          \/ pc' = [pc EXCEPT ![p] = "release"]
      BY <1>6 DEF LockForEnqueue, Goto
    <2> QED
      BY <1>1, <1>2, <1>3, <2>1, <2>2, PurgeSlots DEF Releasing
  <1> QED
    BY <1>4, <1>5, <1>6

LEMMA DropSlots ==
  ASSUME SlotInv, NEW p \in Producers, AdmitByDropping(p)
  PROVE  SlotInv'
  <1> DEFINE t == loc[p].job.tenant
             v == Victim(t, loc[p].job.prio)
  <1>1. /\ p \in Procs /\ pc[p] \notin Releasing \cup {"push"}
        /\ UNCHANGED <<estimate, task, freed>>
    BY DEF Procs, Releasing, AdmitByDropping
  <1>2. \/ /\ pending' = pending
           /\ \E l \in {"reserve", "idle", "wait"} : pc' = [pc EXCEPT ![p] = l]
        \/ /\ v \in pending /\ pending' = pending \ {v}
           /\ pc' = [pc EXCEPT ![p] = "push"]
    <2>1. \/ v \in pending /\ Live({v}) = {v}
          \/ v \notin pending /\ Live({v}) = {}
      BY DEF Live
    <2> HIDE DEF v
    <2>2. \/ pending' = pending /\ Goto(p, "reserve")
          \/ pending' = pending /\ Refuse(p)
          \/ /\ pending' = pending \ Live({v})
             /\ \/ v \in Live({v}) /\ Goto(p, "push")
                \/ v \notin Live({v}) /\ Goto(p, "reserve")
      BY DEF AdmitByDropping, v
    <2> QED
      BY <1>1, <2>1, <2>2, Turns
  <1>3. {"reserve", "idle", "wait"} \subseteq Labels
    BY DEF Labels
  <1>4. freed[p] = {}
    BY <1>1, OwesNothing
  <1> HIDE DEF v
  <1> QED
    BY <1>1, <1>2, <1>3, <1>4, QuietSlots, Handover

LEMMA ReserveSlots ==
  ASSUME SlotInv, NEW p \in Producers, Reserve(p)
  PROVE  SlotInv'
  <1>1. /\ p \in Procs /\ pc[p] \notin Releasing \cup {"push"} /\ task' = task
    BY DEF Procs, Releasing, Reserve
  <1>2. {"idle", "wait", "release"} \subseteq Labels
    BY DEF Labels
  <1>3. CASE SlotFree
    <2>1. /\ estimate' = estimate + 1 /\ pending' = pending /\ freed' = freed
          /\ pc' = [pc EXCEPT ![p] = "push"]
      BY <1>3 DEF Reserve, Goto
    <2> QED
      BY <1>1, <1>3, <2>1, OwesNothing, ReserveOne
  <1>4. CASE ~SlotFree /\ ~loc[p].purged
    <2>1. estimate' = estimate /\ Purge(p, loc[p].job.tenant, FullBudget)
      BY <1>4 DEF Reserve
    <2>2. \/ freed'[p] = {} /\ \E l \in {"idle", "wait"} : pc' = [pc EXCEPT ![p] = l]
          \/ pc' = [pc EXCEPT ![p] = "release"]
      BY <1>1, <1>4, Turns DEF Reserve
    <2> QED
      BY <1>1, <1>2, <2>1, <2>2, PurgeSlots DEF Releasing
  <1>5. CASE ~SlotFree /\ loc[p].purged
    <2>1. UNCHANGED <<estimate, pending, freed>> /\ Refuse(p)
      BY <1>5 DEF Reserve, slotVars
    <2> QED
      BY <1>1, <1>2, <2>1, Turns, QuietSlots
  <1> QED
    BY <1>3, <1>4, <1>5

LEMMA PushSlots ==
  ASSUME SlotInv, NEW p \in Producers, Push(p), loc[p].job \in Requests
  PROVE  SlotInv'
  <1>1. /\ pc[p] = "push" /\ task' = Append(task, loc[p].job)
        /\ pending' = pending \cup {Len(task) + 1}
        /\ estimate' = estimate /\ freed' = freed
    BY DEF Push
  <1>2. \E l \in {"activate", "notify", "idle"} : pc' = [pc EXCEPT ![p] = l]
    BY DEF Push, Goto, Return
  <1>3. {"activate", "notify", "idle"} \subseteq Labels
    BY DEF Labels
  <1> QED
    BY <1>1, <1>2, <1>3, Fill

LEMMA ClientSlots ==
  ASSUME SlotInv, NEW k \in Cancellers \cup Closers,
         CancelTake(k) \/ CancelMark(k) \/ Close(k)
  PROVE  SlotInv'
  <1>1. k \in Procs /\ {"mark", "release", "notify"} \subseteq Labels
    BY DEF Procs, Labels
  <1>2. CASE CancelTake(k)
    <2>1. PICK x \in pending : pending' = pending \ {x}
                              /\ freed' = [freed EXCEPT ![k] = {x}]
      BY <1>2 DEF CancelTake
    <2>2. /\ pc[k] = "idle" /\ pc' = [pc EXCEPT ![k] = "mark"]
          /\ UNCHANGED <<estimate, task>>
      BY <1>2 DEF CancelTake, Goto
    <2> QED
      BY <1>1, <2>1, <2>2, OwesNothing, Transfer DEF Releasing
  <1>3. CASE CancelMark(k)
    <2>1. /\ pc[k] = "mark" /\ pc' = [pc EXCEPT ![k] = "release"]
          /\ UNCHANGED <<estimate, pending, task, freed>>
      BY <1>3 DEF CancelMark, Goto, entryVars
    <2> QED
      BY <1>1, <2>1, Neutral DEF Releasing
  <1>4. CASE Close(k)
    <2>1. /\ pc[k] = "idle" /\ pc' = [pc EXCEPT ![k] = "notify"]
          /\ UNCHANGED <<estimate, pending, task, freed>>
      BY <1>4 DEF Close, Goto, slotVars, entryVars
    <2> QED
      BY <1>1, <2>1, QuietSlots DEF Releasing
  <1> QED
    BY <1>2, <1>3, <1>4

LEMMA SettleSlots ==
  ASSUME SlotInv, TypeInv, NEW p \in Procs, Release(p) \/ NotifyAll(p)
  PROVE  SlotInv'
  <1>1. CASE Release(p)
    <2>1. /\ pc[p] = "release" /\ pc' = [pc EXCEPT ![p] = "notify"]
          /\ estimate' = IF Cardinality(freed[p]) <= estimate
                         THEN estimate - Cardinality(freed[p]) ELSE 0
          /\ freed' = [freed EXCEPT ![p] = {}]
          /\ UNCHANGED <<pending, task>>
      BY <1>1 DEF Release, Goto, entryVars
    <2>2. "notify" \in Labels
      BY DEF Labels
    <2> QED
      BY <2>1, <2>2, Discharge
  <1>2. CASE NotifyAll(p)
    <2>1. /\ pc[p] = "notify" /\ UNCHANGED <<estimate, pending, task, freed>>
          /\ \E l \in {"idle", loc[p].then} : pc' = [pc EXCEPT ![p] = l]
      BY <1>2 DEF NotifyAll, Return, Goto, slotVars, entryVars
    <2>2. loc[p].then \in {"idle", "admit", "reserve", "weigh", "leave"}
      BY LocFields DEF TypeInv, LocType
    <2>3. {"idle", "admit", "reserve", "weigh", "leave"} \subseteq Labels
      BY DEF Labels
    <2> QED
      BY <2>1, <2>2, <2>3, QuietSlots DEF Releasing
  <1> QED
    BY <1>1, <1>2

LEMMA PollSlots ==
  ASSUME SlotInv, NEW c \in Consumers,
         \/ Observe(c) \/ EnterTryDequeue(c) \/ NoTask(c) \/ Doze(c) \/ WakeUp(c)
         \/ PopShard(c) \/ LockForDequeue(c) \/ NextLevel(c) \/ Weigh(c)
         \/ LeaveShard(c) \/ PutBackShard(c)
  PROVE  SlotInv'
  <1> DEFINE labels == {"idle", "closed", "pop", "enter", "doze", "again", "wait",
                        "empty", "grab", "scan", "leave", "commit", "putback"}
  <1>1. c \in Procs /\ labels \subseteq Labels /\ "push" \notin labels
    BY DEF Procs, Labels
  <1>2. pc[c] \notin Releasing \cup {"push"}
    BY DEF Releasing, Observe, EnterTryDequeue, NoTask, Doze, WakeUp, PopShard,
           LockForDequeue, NextLevel, Weigh, LeaveShard, PutBackShard
  <1>3. UNCHANGED <<estimate, pending, task, freed>>
    BY DEF Observe, EnterTryDequeue, NoTask, Doze, WakeUp, PopShard,
           LockForDequeue, NextLevel, Weigh, LeaveShard, PutBackShard, slotVars,
           entryVars
  <1>4. \E l \in labels : Goto(c, l)
    BY DEF Observe, EnterTryDequeue, NoTask, Doze, WakeUp, PopShard,
           LockForDequeue, NextLevel, Weigh, LeaveShard, PutBackShard,
           ReturnClosed, Return, SeekLevel, ReturnOrGoOn
  <1> HIDE DEF labels
  <1> QED
    BY <1>1, <1>2, <1>3, <1>4, Turns, QuietSlots

LEMMA ServeSlots ==
  ASSUME SlotInv, NEW c \in Consumers, Visit(c) \/ Commit(c)
  PROVE  SlotInv'
  <1>1. /\ c \in Procs /\ pc[c] \notin Releasing \cup {"push"}
        /\ UNCHANGED <<estimate, task>>
        /\ {"weigh", "release", "scan"} \subseteq Labels
    BY DEF Procs, Labels, Releasing, Visit, Commit
  <1>2. freed[c] = {}
    BY <1>1, OwesNothing
  <1>3. CASE Visit(c)
    <2>1. PICK S \in SUBSET pending :
            /\ pending' = pending \ S /\ freed' = [freed EXCEPT ![c] = S]
            /\ pc' = [pc EXCEPT ![c] = IF S = {} THEN "weigh" ELSE "release"]
      BY <1>3 DEF Visit, Live, Goto
    <2> QED
      BY <1>1, <1>2, <2>1, Transfer DEF Releasing
  <1>4. CASE Commit(c)
    <2>1. \/ /\ pending' = pending /\ freed' = freed
             /\ pc' = [pc EXCEPT ![c] = "scan"]
          \/ /\ loc[c].item \in pending /\ pending' = pending \ {loc[c].item}
             /\ freed' = [freed EXCEPT ![c] = {loc[c].item}]
             /\ pc' = [pc EXCEPT ![c] = "release"]
      BY <1>4 DEF Commit, Live, Goto
    <2>2. CASE pending' = pending /\ freed' = freed /\ pc' = [pc EXCEPT ![c] = "scan"]
      BY <1>1, <2>2, QuietSlots
    <2>3. CASE /\ loc[c].item \in pending /\ pending' = pending \ {loc[c].item}
               /\ freed' = [freed EXCEPT ![c] = {loc[c].item}]
               /\ pc' = [pc EXCEPT ![c] = "release"]
      <3>1. {loc[c].item} \in SUBSET pending
        BY <2>3
      <3> QED
        BY <1>1, <1>2, <2>3, <3>1, Transfer DEF Releasing
    <2> QED
      BY <2>1, <2>2, <2>3
  <1> QED
    BY <1>3, <1>4

-----------------------------------------------------------------------------
\* No slot is leaked and none is freed twice, whatever the threads do: the
\* counter behind try_reserve_slot and release_reserved_slots stays within
\* max_global and equals the live tasks plus the slots in flight.
THEOREM SlotInvariant == Spec => []SlotInv
  <1>1. Init => SlotInv
    <2> SUFFICES ASSUME Init PROVE SlotInv
      OBVIOUS
    <2>1. /\ pending = {} /\ estimate = 0 /\ task = <<>>
          /\ \A p \in Procs : freed[p] = {} /\ pc[p] = "idle"
      BY DEF Init
    <2>2. Owed = {}
      <3>1. \A x : x \in Owed <=> x \in pending \/ \E p \in Procs : x \in freed[p]
        BY Zenon DEF Owed
      <3> QED
        BY <2>1, <3>1
    <2>3. Pushing = {}
      BY <2>1 DEF Pushing, Procs
    <2>4. SlotsExact
      BY <2>1, <2>2, <2>3, FS_EmptySet DEF SlotsExact
    <2>5. 0 \in 0 .. MaxGlobal
      BY SchedulerAssumption
    <2> QED
      BY <2>1, <2>4, <2>5 DEF Init, SlotInv, Labels
  <1>2. TypeInv /\ SlotInv /\ [Next]_vars => SlotInv'
    <2> SUFFICES ASSUME TypeInv, SlotInv, [Next]_vars PROVE SlotInv'
      OBVIOUS
    <2>1. CASE \E p \in Producers : Enqueue(p) \/ ProducerStep(p)
      <3>1. PICK p \in Producers : Enqueue(p) \/ ProducerStep(p)
        BY <2>1
      <3>2. loc[p].job \in Requests
        BY LocFields DEF TypeInv, Procs
      <3> QED
        BY <3>1, <3>2, EnqueueSlots, LockSlots, DropSlots, ReserveSlots, PushSlots
           DEF ProducerStep
    <2>2. CASE \E c \in Consumers : ConsumerStep(c)
      BY <2>2, PollSlots, ServeSlots DEF ConsumerStep
    <2>3. CASE \/ \E k \in Cancellers : CancelTake(k) \/ CancelMark(k)
               \/ \E k \in Closers : Close(k)
      BY <2>3, ClientSlots
    <2>4. CASE \E p \in Procs : Release(p) \/ NotifyAll(p)
      BY <2>4, SettleSlots
    <2>5. CASE Expire \/ UNCHANGED vars
      BY <2>5 DEF Expire, vars, slotVars, SlotInv, SlotsExact, Owed, Pushing,
                  entryVars
    <2> QED
      BY <2>1, <2>2, <2>3, <2>4, <2>5 DEF Next
  <1> QED
    BY <1>1, <1>2, TypeCorrect, PTL DEF Spec

\* The exact accounting by itself, for a reader who does not care for the
\* invariant it is proved with.
THEOREM SlotsAlwaysExact == Spec => []SlotsExact
  <1>1. SlotInv => SlotsExact
    BY DEF SlotInv
  <1> QED
    BY <1>1, SlotInvariant, PTL

\* Bounded memory: there are never more live tasks than max_global.
LiveBounded == Cardinality(pending) <= MaxGlobal

THEOREM CapacityHolds == Spec => []LiveBounded
  <1>1. SlotInv => LiveBounded
    <2> SUFFICES ASSUME SlotInv PROVE LiveBounded
      OBVIOUS
    <2>1. pending \subseteq Owed
      BY DEF Owed
    <2>2. Cardinality(pending) <= Cardinality(Owed) /\ Cardinality(pending) \in Nat
      BY <2>1, Finiteness, FS_Subset, FS_CardinalityType
    <2>3. /\ estimate = Cardinality(Owed) + Cardinality(Pushing)
          /\ estimate <= MaxGlobal
      BY SchedulerAssumption DEF SlotInv, SlotsExact
    <2> QED
      BY <2>2, <2>3, Finiteness, SchedulerAssumption DEF LiveBounded
  <1> QED
    BY <1>1, SlotInvariant, PTL

-----------------------------------------------------------------------------
(* Who is told Closed, and when. *)

\* A step takes at most one process to another label, and a consumer that has
\* found no task only takes NoTask.
LEMMA OneMoves ==
  ASSUME Next
  PROVE  \/ pc' = pc
         \/ \E p \in Procs : \E l : /\ pc' = [pc EXCEPT ![p] = l]
                                    /\ pc[p] = "empty" => NoTask(p)
  <1>1. CASE \E p \in Producers : Enqueue(p) \/ ProducerStep(p)
    <2>1. PICK p \in Producers : Enqueue(p) \/ ProducerStep(p)
      BY <1>1
    <2>2. p \in Procs /\ pc[p] # "empty"
      BY <2>1 DEF Procs, Enqueue, ProducerStep, RetryEnqueue, LockForEnqueue, Admit,
                  AdmitByDropping, Reserve, Push, Activate, Publish
    <2>3. \E l : Goto(p, l)
      BY <2>1 DEF Enqueue, BeginAttempt, ProducerStep, RetryEnqueue, LockForEnqueue,
                  Admit, AdmitByDropping, Reserve, Push, Activate, Publish,
                  AfterActivation, Refuse, Return
    <2> QED
      BY <2>2, <2>3 DEF Goto
  <1>2. CASE \E c \in Consumers : ConsumerStep(c)
    <2>1. PICK c \in Consumers : ConsumerStep(c)
      BY <1>2
    <2>2. c \in Procs /\ (pc[c] = "empty" => NoTask(c))
      BY <2>1 DEF Procs, ConsumerStep, Observe, EnterTryDequeue, PopShard,
                  LockForDequeue, NextLevel, Visit, Weigh, Commit, LeaveShard,
                  PutBackShard, Doze, WakeUp
    <2>3. \E l : Goto(c, l)
      BY <2>1 DEF ConsumerStep, Observe, EnterTryDequeue, PopShard,
                  LockForDequeue, NextLevel, Visit, Weigh, Commit, LeaveShard,
                  PutBackShard, NoTask, Doze, WakeUp, SeekLevel, ReturnOrGoOn,
                  ReturnClosed, Return
    <2> QED
      BY <2>2, <2>3 DEF Goto
  <1>3. CASE \/ \E k \in Cancellers : CancelTake(k) \/ CancelMark(k)
             \/ \E k \in Closers : Close(k)
             \/ \E p \in Procs : Release(p) \/ NotifyAll(p)
    <2>1. PICK p \in Procs : \/ CancelTake(p) \/ CancelMark(p) \/ Close(p)
                           \/ Release(p) \/ NotifyAll(p)
      BY <1>3 DEF Procs
    <2>2. pc[p] # "empty" /\ \E l : Goto(p, l)
      BY <2>1 DEF CancelTake, CancelMark, Close, Release, NotifyAll, Return
    <2> QED
      BY <2>2 DEF Goto
  <1>4. CASE Expire
    BY <1>4 DEF Expire
  <1> QED
    BY <1>1, <1>2, <1>3, <1>4 DEF Next

\* In drain mode no consumer is told Closed while a task or a slot is still
\* out: the counter should_return_closed reads is exact, not an estimate.
THEOREM DrainIsComplete == Spec => ClosedMeansDrained
  <1> DEFINE Told(c) == mode = "drain" /\ pc[c] = "empty" /\ pc'[c] = "closed"
             Drained == pending = {} /\ \A p \in Procs : freed[p] = {}
  <1>1. SlotInv /\ estimate = 0 => Drained
    <2> SUFFICES ASSUME SlotInv, estimate = 0 PROVE Drained
      OBVIOUS
    <2>1. Cardinality(Owed) = 0 /\ IsFiniteSet(Owed)
      BY Finiteness DEF SlotInv, SlotsExact
    <2>2. Owed = {}
      BY <2>1, FS_EmptySet
    <2>3. \A x : x \in Owed <=> x \in pending \/ \E p \in Procs : x \in freed[p]
      BY Zenon DEF Owed
    <2> QED
      BY <2>2, <2>3
  <1>2. SlotInv /\ [Next]_vars => [\A c \in Consumers : Told(c) => Drained]_vars
    <2> SUFFICES ASSUME SlotInv, Next, NEW c \in Consumers, Told(c)
                 PROVE  Drained
      OBVIOUS
    <2>1. pc \in [Procs -> Labels] /\ c \in Procs /\ pc' # pc
      BY DEF SlotInv, Procs
    <2>2. NoTask(c)
      BY <2>1, OneMoves
    <2>3. estimate = 0
      <3>1. pc'[c] # "doze" /\ pc'[c] # "idle" /\ mode = "drain"
        OBVIOUS
      <3>2. ClosedFor
        BY <2>1, <2>2, <3>1 DEF NoTask, Return, Goto
      <3> QED
        BY <3>1, <3>2 DEF ClosedFor
    <2> QED
      BY <1>1, <2>3
  <1> QED
    BY <1>2, SlotInvariant, PTL DEF Spec, ClosedMeansDrained
=============================================================================
