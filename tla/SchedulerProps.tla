--------------------------- MODULE SchedulerProps ---------------------------
(***************************************************************************)
(* What Scheduler promises: slots, queues, rings and wake-ups agree at     *)
(* every step of every thread, and tasks are settled as TaskLedger says.   *)
(***************************************************************************)
EXTENDS Scheduler

\* The producers past the accept check made under the shard lock.
Inside == {p \in Producers :
             \/ pc[p] \in {"admit", "reserve", "push"}
             \/ pc[p] \in {"release", "notify"}
                  /\ loc[p].then \in {"admit", "reserve"}}

-----------------------------------------------------------------------------
\* Every variable has its type; sets and queues name only tasks that exist.
LocType ==
  [job : Requests, item : Nat, shard : Shards, left : Nat, level : Prios,
   visits : Nat, wasIdle : BOOLEAN, purged : BOOLEAN, signal : BOOLEAN,
   then : {"idle", "admit", "reserve", "weigh", "leave"}]

SharedOK ==
  /\ mode \in {"open", "drain", "immediate"}
  /\ estimate \in 0 .. MaxGlobal
  /\ task \in Seq(Requests)
  /\ pending \subseteq DOMAIN task
  /\ cancelled \subseteq DOMAIN task
  /\ late \subseteq DOMAIN task
  /\ queue \in [Tenants -> [Prios -> SUBSET DOMAIN task]]
  /\ deficit \in [Tenants -> [Prios -> Int]]
  /\ active \in [Tenants -> [Prios -> BOOLEAN]]
  /\ attempts \in [Tenants -> Nat]
  /\ ring \in [Shards -> [Prios -> Seq(Tenants)]]
  /\ lock \in [Shards -> Procs \cup {NoProc}]
  /\ activeShards \in Seq(Shards)
  /\ shardActive \in [Shards -> BOOLEAN]
  /\ current \subseteq Procs
  /\ fate \in [Ids -> Fates]
  /\ freed \in [Procs -> SUBSET DOMAIN task]

TypeOK == SharedOK /\ pc \in [Procs -> Labels] /\ loc \in [Procs -> LocType]

\* TypeOK made inductive: a process inside a shard holds its mutex, a consumer
\* in a pass still has an entry of the ring for every visit, the task a process
\* works on exists, and a process that holds no mutex has none to go back to.
Locking(p) ==
  \/ pc[p] \in {"admit", "reserve", "push", "scan", "weigh", "commit", "leave"}
  \/ pc[p] \in {"release", "notify"} /\ loc[p].then # "idle"
HeldShard(p) == IF p \in Producers THEN JobShard(p) ELSE loc[p].shard
MutualExclusion == \A p \in Procs : Locking(p) => lock[HeldShard(p)] = p

Weighing(c) ==
  \/ pc[c] = "weigh"
  \/ pc[c] \in {"release", "notify"} /\ loc[c].then = "weigh"
VisitsCovered ==
  \A c \in Consumers :
    LET left == Len(ring[loc[c].shard][loc[c].level])
    IN  /\ pc[c] \in {"scan", "commit"} => loc[c].visits <= left
        /\ Weighing(c) => loc[c].visits < left

LocalsSet ==
  \A p \in Procs :
    /\ pc[p] \in {"commit", "mark"} => loc[p].item \in DOMAIN task
    /\ pc[p] \in {"idle", "mark", "activate", "publish"} => loc[p].then = "idle"

TypeInv == TypeOK /\ MutualExclusion /\ VisitsCovered /\ LocalsSet

\* queue_len_estimate counts exactly the live tasks, the slots reserved for a
\* push and the slots of settled tasks that are still to be released, and no
\* slot is ever due twice: release_reserved_slots never saturates.
Pushing == {p \in Producers : pc[p] = "push"}
Owed == pending \cup UNION {freed[p] : p \in Procs}

SlotsExact ==
  /\ \A p \in Procs : freed[p] \cap pending = {}
  /\ \A p, q \in Procs : p # q => freed[p] \cap freed[q] = {}
  /\ estimate = Cardinality(Owed) + Cardinality(Pushing)

\* SlotsExact made inductive: only a process about to release owes slots.
Releasing == {"mark", "release"}
SlotInv ==
  /\ estimate \in 0 .. MaxGlobal
  /\ task \in Seq(Requests)
  /\ pc \in [Procs -> Labels]
  /\ pending \subseteq DOMAIN task
  /\ freed \in [Procs -> SUBSET DOMAIN task]
  /\ \A p \in Procs : freed[p] # {} => pc[p] \in Releasing
  /\ SlotsExact

\* A live task is in the queue of its tenant at its priority, or popped by a
\* consumer that is about to hand it out: no path loses a task and keeps its
\* slot.
NothingLost ==
  \A x \in pending :
    \/ x \in queue[task[x].tenant][task[x].prio]
    \/ \E c \in Consumers : pc[c] = "commit" /\ loc[c].item = x

\* NothingLost made inductive, with what the refinement of TaskLedger needs: the
\* history agrees with the pending set, every entry is in the queue it was pushed
\* on and every ring lists tenants of its own shard, a marker never names a live
\* task, a popped task is older than what its queue still holds, a tenant that a
\* producer was let into has room, and a call under way has a handle left.
Admitted(p) ==
  \/ pc[p] \in {"reserve", "push"}
  \/ pc[p] \in {"release", "notify"} /\ loc[p].then = "reserve"
Coming == {p \in Producers : pc[p] \in {"lock", "wait"} \/ p \in Inside}

FatesTrue == \A x \in Ids : fate[x] = "queued" <=> x \in pending
HandlesLeft == Len(task) + Cardinality(Coming) <= MaxTasks
QueuesSorted ==
  \A t \in Tenants, i \in Prios : \A x \in queue[t][i] :
    task[x].tenant = t /\ task[x].prio = i
RingsLocal ==
  \A s \in Shards, i \in Prios : \A k \in DOMAIN ring[s][i] :
    ShardOf(ring[s][i][k]) = s
MarkersSettled ==
  /\ cancelled \cap pending = {}
  /\ \A k \in Procs : pc[k] = "mark" => loc[k].item \notin pending
PoppedBy(c) ==
  LET t == task[loc[c].item].tenant
      i == task[loc[c].item].prio
  IN  /\ loc[c].shard = ShardOf(t) /\ loc[c].level = i
      /\ \A y \in queue[t][i] : loc[c].item < y
PoppedFirst == \A c \in Consumers : pc[c] = "commit" => PoppedBy(c)
TenantsBounded ==
  /\ \A t \in Tenants : TotalLen(t) <= MaxPerTenant
  /\ \A p \in Producers : Admitted(p) => ~TenantFull(loc[p].job.tenant)

LedgerInv ==
  /\ NothingLost /\ FatesTrue /\ HandlesLeft /\ QueuesSorted /\ RingsLocal
  /\ MarkersSettled /\ PoppedFirst /\ TenantsBounded

\* A tenant with entries is in the ring of its shard, and a shard whose rings
\* are not empty is known to exactly one place: active_shards, a consumer that
\* popped it, or a producer that is about to activate it.
Listed(s) == {k \in DOMAIN activeShards : activeShards[k] = s}
Serving(s) ==
  {c \in Consumers :
     /\ loc[c].shard = s
     /\ pc[c] \in {"grab", "scan", "weigh", "commit", "leave", "putback",
                  "release", "notify"}}
Waking(s) == {p \in Producers : pc[p] \in {"activate", "publish"} /\ JobShard(p) = s}
Places(s) == Cardinality(Listed(s)) + Cardinality(Serving(s)) + Cardinality(Waking(s))
InRing(t, i) == \E k \in DOMAIN ring[ShardOf(t)][i] : ring[ShardOf(t)][i][k] = t

RunnableReachable ==
  /\ \A t \in Tenants, i \in Prios :
       queue[t][i] # {} =>
         active[t][i] /\ InRing(t, i)
  /\ \A s \in Shards :
       /\ Places(s) <= 1
       /\ HasWork(s) => Places(s) = 1

\* RunnableReachable made inductive: a tenant that counts as active is in its
\* ring; a shard is nowhere, listed, served by a consumer or being woken by a
\* producer, which is what its work and shard_active say; the producer inside a
\* shard knows whether it was idle; and no consumer notifies between two shards.
RingsServed ==
  \A t \in Tenants, i \in Prios :
    /\ queue[t][i] # {} => active[t][i]
    /\ active[t][i] => InRing(t, i)
ShardReached(s) ==
  \/ /\ Listed(s) = {} /\ Serving(s) = {} /\ Waking(s) = {}
     /\ ~HasWork(s) /\ ~shardActive[s]
  \/ /\ \E k \in DOMAIN activeShards : Listed(s) = {k}
     /\ Serving(s) = {} /\ Waking(s) = {}
     /\ HasWork(s) /\ shardActive[s]
  \/ \E c \in Consumers :
       /\ Listed(s) = {} /\ Serving(s) = {c} /\ Waking(s) = {}
       /\ HasWork(s) \/ Locking(c)
       /\ shardActive[s]
  \/ \E p \in Producers :
       /\ Listed(s) = {} /\ Serving(s) = {} /\ Waking(s) = {p}
       /\ HasWork(s)
       /\ shardActive[s] <=> pc[p] = "publish"
IdleKnown ==
  \A p \in Producers : Locking(p) => (loc[p].wasIdle <=> ~HasWork(JobShard(p)))
ServiceHeld ==
  \A c \in Consumers :
    pc[c] \in {"release", "notify"} => loc[c].then \in {"weigh", "leave"}

ReachInv ==
  /\ RingsServed /\ IdleKnown /\ ServiceHeld
  /\ \A s \in Shards : ShardReached(s)

\* Deficit round robin: a tenant never banks a full task and a quantum, nor
\* runs into debt.
MaxCost == LET cs == {r.cost : r \in Requests}
           IN  CHOOSE m \in cs : \A n \in cs : n <= m
DeficitBound ==
  \A t \in Tenants, i \in Prios :
    deficit[t][i] >= 0 /\ deficit[t][i] < MaxCost + Quantum[t]

\* DeficitBound made inductive: a popped task is paid for.
DeficitInv ==
  /\ DeficitBound
  /\ \A c \in Consumers : pc[c] = "commit" =>
       LET x == loc[c].item
       IN  task[x].cost <= deficit[task[x].tenant][task[x].prio]

\* In drain mode a consumer is told Closed only when every task accepted so far
\* is settled and its slot released.
ClosedMeansDrained ==
  [][\A c \in Consumers :
       mode = "drain" /\ pc[c] = "empty" /\ pc'[c] = "closed"
         => pending = {} /\ \A p \in Procs : freed[p] = {}]_vars

\* A blocking consumer sleeps on a current signal only while there is no task
\* to take, unless another thread is in the middle of a call.
Asleep(p) == pc[p] = "wait" /\ p \in current
Resting(p) == pc[p] \in {"idle", "closed"} \/ Asleep(p)
NoSleepOnWork ==
  (\A p \in Procs : Resting(p))
     => \A c \in Consumers :
          Kind[c] = "blocking" /\ Asleep(c) => pending = {}

\* Likewise, a Timeout producer sleeps only while its tenant or the scheduler
\* is full: whatever makes room wakes it.
NoSleepOnRoom ==
  (\A p \in Procs : Resting(p))
     => \A p \in Producers :
          Asleep(p) => TenantFull(loc[p].job.tenant) \/ ~SlotFree

\* NoSleepOnWork made inductive, for a system without cancellers: there is no
\* marker and every entry is live, and a consumer sleeps with a task to take only
\* while the thread that will notify it is on its way.
Alerting(p) ==
  \/ pc[p] \in {"release", "notify"}
  \/ pc[p] \in {"activate", "publish"} /\ loc[p].signal
WorkInv ==
  /\ cancelled = {}
  /\ \A t \in Tenants, i \in Prios : queue[t][i] \subseteq pending
  /\ \A c \in Consumers :
       Asleep(c) => pending = {} \/ \E p \in Procs : Alerting(p)

\* NoSleepOnRoom made inductive: an entry that is not live is marked or about to
\* be; and a producer sleeps, or is about to, only while a thread that frees a
\* slot is on its way to notify it, the scheduler is full, or its tenant is full
\* of entries none of which can go without a slot being freed: the front of every
\* queue is live, and so is one of the entries a purge would remove.
Freeing(p) ==
  \/ pc[p] \in {"mark", "release", "notify"}
  \/ p \in Consumers /\ pc[p] = "commit" /\ loc[p].item \in pending
Crowded(t) ==
  /\ TenantFull(t)
  /\ \A i \in Prios :
       LET q == queue[t][i]
           gone == Purgeable(q, FullBudget)
       IN  /\ q # {} => Front(q) \in pending
           /\ gone # {} => gone \cap pending # {}
EntriesMarked ==
  \A t \in Tenants, i \in Prios : \A x \in queue[t][i] :
    \/ x \in pending \cup cancelled
    \/ \E k \in Cancellers : pc[k] = "mark" /\ loc[k].item = x
RoomInv ==
  /\ EntriesMarked
  /\ \A p \in Producers : pc[p] = "wait" => Policy[loc[p].job.tenant] = "timeout"
  /\ \A p \in Producers, t \in Tenants :
       p \in current /\ loc[p].job.tenant = t /\ Policy[t] = "timeout" =>
         /\ pc[p] = "wait" =>
              (\E q \in Procs : Freeing(q)) \/ ~SlotFree \/ Crowded(t)
         /\ pc[p] = "admit" /\ TenantFull(t) =>
              (\E q \in Procs : Freeing(q)) \/ Crowded(t)

-----------------------------------------------------------------------------
(* Every thread is scheduled, and a thread that keeps asking for a shard    *)
(* lock gets it in the end (parking_lot's mutexes are eventually fair).     *)
(* Consumers call dequeue again after every task; producers need not call   *)
(* again, clients need not cancel or close, and no deadline need pass.      *)
Settling(p) == Release(p) \/ NotifyAll(p)
Fairness ==
  /\ \A p \in Producers :
       WF_vars(ProducerStep(p) \/ Settling(p)) /\ SF_vars(LockForEnqueue(p))
  /\ \A c \in Consumers :
       WF_vars(ConsumerStep(c) \/ Settling(c)) /\ SF_vars(LockForDequeue(c))
  /\ \A k \in Cancellers : WF_vars(CancelMark(k) \/ Settling(k))
  /\ \A k \in Closers : WF_vars(Settling(k))

FairSpec == Spec /\ Fairness

\* Every accepted task is settled in the end, unless all consumers have gone.
EveryTaskSettled ==
  \A x \in Ids :
    fate[x] = "queued" ~>
      (fate[x] # "queued" \/ \A c \in Consumers : pc[c] = "closed")

\* Once the scheduler is closed, in either mode, every blocked consumer is told.
ConsumersReleased ==
  mode # "open" ~> \A c \in Consumers : pc[c] = "closed"

-----------------------------------------------------------------------------
(* What the documentation says and the code does not do.  Each of these is  *)
(* refuted by a run of its own.                                             *)

\* "Dequeues one task, blocking until work is available or scheduler closes"
\* (scheduler.rs:643) is NoSleepOnWork, which cancellation breaks.

\* "Explicit backpressure and bounded memory behavior" (README.md:16): with no
\* call under way, the only markers kept are those of entries still queued.
MarkersBounded == (\A p \in Procs : Resting(p)) => cancelled \subseteq Entries

\* "quantum as work units granted per round" (README.md:146): the rest of a
\* round over a ring visits no tenant twice.
OneQuantumPerRound ==
  \A c \in Consumers : pc[c] = "scan" =>
    LET round == ring[loc[c].shard][loc[c].level]
    IN  \A j, k \in 1 .. loc[c].visits : round[j] = round[k] => j = k

\* "stops accepting and drains queued work before closing" (scheduler.rs:804):
\* once every consumer was told Closed in drain mode, no task is left behind.
DrainServesAll ==
  mode = "drain" /\ (\A c \in Consumers : pc[c] = "closed") => pending = {}

\* "Priority is strict (High -> Normal -> Low) in dispatch order"
\* (README.md:105): no task is delivered past a queued one of higher priority.
StrictPriority ==
  [][\A x, y \in Ids :
       fate[x] = "queued" /\ fate'[x] = "delivered" /\ fate[y] = "queued"
         => task[x].prio <= task[y].prio \/ y \in late]_vars

-----------------------------------------------------------------------------
\* Tasks are accepted and settled as TaskLedger allows.
Ledger == INSTANCE TaskLedger WITH
            Callers <- Producers, job <- task, overdue <- late, status <- fate,
            inside <- Inside
ImplementsLedger == Ledger!Spec

\* Within a tenant and priority nothing overtakes: whatever is popped, purged,
\* expired, cancelled or dropped from either end meanwhile, a task is delivered
\* only when every older one has been settled (scheduler.rs 617; the README, line
\* 109, gives up the order only across tenants).
DeliveredInOrder ==
  \A x, y \in Ids :
    /\ fate[x] = "queued" /\ fate[y] = "delivered"
    /\ Ledger!SameQueue(x, y)
    => y < x

\* DeliveredInOrder made inductive: only a task that was accepted has a fate.
FatesKnown == \A x \in Ids : fate[x] # "none" => x \in DOMAIN task
OrderInv == DeliveredInOrder /\ FatesKnown
=============================================================================
