------------------------------ MODULE Scheduler ------------------------------
(***************************************************************************)
(* firq-core's Scheduler<T>: any number of threads call enqueue, cancel,   *)
(* try_dequeue / dequeue_blocking[_timeout] and close_* on one shared      *)
(* scheduler.  The step of a process is a stretch of code that reads or    *)
(* writes at most one object other threads can see without holding the     *)
(* shard lock it runs under (the slot counter, the pending and cancelled   *)
(* sets, the shutdown mode, the ring of active shards, the work signal),   *)
(* or several when the earlier accesses can be moved to the last one past  *)
(* the steps of any other thread; README.md gives the argument.            *)
(*                                                                         *)
(* A task is named by its handle, and handles are given out in increasing  *)
(* order under the shard lock, so a FIFO queue is the SET of the handles   *)
(* in it: the front is the least one and the back the greatest.            *)
(***************************************************************************)
EXTENDS Integers, Sequences, FiniteSets

CONSTANTS
  Tenants,        \* the tenant keys in use, a set of naturals
  NumShards,      \* config.shards.max(1)
  Producers,      \* threads that call enqueue
  Consumers,      \* threads that dequeue
  Cancellers,     \* threads that cancel
  Closers,        \* threads that close the scheduler
  Kind,           \* how each consumer dequeues: "blocking", "timed", "try"
  Requests,       \* arguments of enqueue: [tenant, prio, cost, deadline]
  Policy,         \* backpressure_for: tenant -> policy
  Quantum,        \* quantum of each tenant
  MaxGlobal,      \* config.max_global
  MaxPerTenant,   \* config.max_per_tenant
  PurgeInterval,  \* ENQUEUE_PURGE_INTERVAL
  NearPercent,    \* ENQUEUE_PURGE_NEAR_LIMIT_PERCENT
  NearBudget,     \* ENQUEUE_PURGE_SCAN_BUDGET_NEAR
  FullBudget,     \* ENQUEUE_PURGE_SCAN_BUDGET_FULL
  CloseModes,     \* the close_* calls clients make
  MaxTasks,       \* bound: how many tasks are ever accepted
  NoProc          \* the owner of a lock nobody holds

Procs  == Producers \cup Consumers \cup Cancellers \cup Closers
Shards == 0 .. NumShards - 1
Prios  == 0 .. 2                  \* High, Normal, Low
Ids    == 1 .. MaxTasks
Fates  == {"none", "queued", "delivered", "expired", "dropped", "cancelled"}
Labels == {"idle", "lock", "admit", "reserve", "push", "activate", "publish",
           "wait", "release", "notify", "mark", "enter", "pop", "grab", "scan",
           "weigh", "commit", "leave", "putback", "empty", "doze", "again",
           "closed"}

ASSUME SchedulerAssumption ==
  /\ Tenants \subseteq Nat /\ Tenants # {}
  /\ NumShards \in Nat \ {0}
  /\ IsFiniteSet(Procs) /\ NoProc \notin Procs
  /\ (Producers \cup Consumers) \cap (Cancellers \cup Closers) = {}
  /\ Producers \cap Consumers = {} /\ Cancellers \cap Closers = {}
  /\ Kind \in [Consumers -> {"blocking", "timed", "try"}]
  /\ Requests # {}
  /\ Requests \subseteq
       [tenant : Tenants, prio : Prios, cost : Nat, deadline : BOOLEAN]
  /\ Policy \in [Tenants -> {"reject", "oldest", "newest", "timeout"}]
  /\ Quantum \in [Tenants -> Nat \ {0}]
  /\ {MaxGlobal, MaxPerTenant, PurgeInterval, NearPercent, NearBudget,
      FullBudget, MaxTasks} \subseteq Nat
  /\ CloseModes \subseteq {"drain", "immediate"}

\* Keys and costs are u64, so there are only so many requests.
ASSUME RequestsAssumption == IsFiniteSet(Requests)

VARIABLES
  mode,         \* shutdown_state
  estimate,     \* stats.queue_len_estimate, the slots in use
  pending,      \* pending_ids
  cancelled,    \* cancelled_ids, the markers of cancelled entries
  task,         \* the task of every handle given out so far
  late,         \* the tasks whose deadline has passed
  queue,        \* TenantState::queues
  deficit,      \* TenantState::deficits
  active,       \* TenantState::active
  attempts,     \* TenantState::enqueue_attempts_since_purge
  ring,         \* Shard::active_rings
  lock,         \* the owner of each shard's mutex
  activeShards, \* active_shards
  shardActive,  \* shard_active
  current,      \* the processes whose last work_signal.current() is current
  fate,         \* history: what became of each task
  pc,           \* where each process is
  freed,        \* the tasks whose slots a process still has to release
  loc           \* the other locals of each process

slotVars  == <<estimate, pending, cancelled>>
entryVars == <<task, late, queue, fate>>
drrVars   == <<deficit, active, attempts, ring>>
shardVars == <<activeShards, shardActive>>
vars == <<mode, slotVars, entryVars, drrVars, shardVars, lock, current, pc,
          freed, loc>>

-----------------------------------------------------------------------------
(* Operators on the state. *)

ShardOf(t) == t % NumShards
Back(q)  == CHOOSE x \in q : \A y \in q : y <= x
PopBack(q) == Back(q)          \* mutant: pop_back for pop_front
Front(q) == CHOOSE x \in q : \A y \in q : x <= y
Entries == {x \in DOMAIN task : \E t \in Tenants, i \in Prios : x \in queue[t][i]}
TotalLen(t) == Cardinality(queue[t][0]) + Cardinality(queue[t][1])
                 + Cardinality(queue[t][2])
HighRingOnly(s) == ring[s][0] # <<>>      \* mutant: forgets two rings
HasWork(s) == \E i \in Prios : ring[s][i] # <<>>

\* take_pending: which of the entries S still hold a slot.
Unchecked(S) == S                         \* mutant: frees the slot regardless
KeepOverdue(S) == (S \cap pending) \ late  \* mutant: expired ones are not taken
Live(S) == S \cap pending

OverfullOnly(t) == TotalLen(t) > MaxPerTenant        \* mutant: off by one
TenantFull(t) == TotalLen(t) >= MaxPerTenant
OneTooMany == estimate <= MaxGlobal                  \* mutant: off by one
SlotFree == estimate < MaxGlobal
NeverNotify(q) == FALSE                \* mutant: enqueue forgets to notify
MustNotify(q) == q = {}
AnyCredit(t, i) == deficit[t][i] > 0   \* mutant: pays on credit
\* mutant: off by one
Dearer(t, i) == deficit[t][i] > task[Front(queue[t][i])].cost
Affordable(t, i) == deficit[t][i] >= task[Front(queue[t][i])].cost
ClosedAtOnce == mode # "open"          \* mutant: does not wait for the drain
ClosedFor == mode = "immediate" \/ (mode = "drain" /\ estimate = 0)

\* Entries a scan removes when it meets them.
Dead == cancelled \cup late
DeadPrefix(q) == {x \in q : \A y \in q : y <= x => y \in Dead}
SideScan(q, budget) ==
  {x \in q \cap Dead : Cardinality({y \in q : y < x}) < budget}
Purgeable(q, budget) ==
  LET head == DeadPrefix(q) IN head \cup SideScan(q \ head, budget)

PurgeReason(t) ==
  CASE TenantFull(t) -> "full"
    [] ~TenantFull(t) /\ TotalLen(t) * 100 >= MaxPerTenant * NearPercent -> "near"
    [] OTHER -> IF attempts[t] + 1 >= PurgeInterval THEN "periodic" ELSE "none"
Budget(reason) ==
  CASE reason = "periodic" -> 0
    [] reason = "near"     -> NearBudget
    [] reason = "full"     -> FullBudget

\* The level drop_from_tenant drops from, searched from Low up to the prio.
DropLevels(t, prio) == {i \in prio .. 2 : queue[t][i] # {}}
Victim(t, prio) ==
  LET q == queue[t][Back(DropLevels(t, prio))]
  IN  IF Policy[t] = "oldest" THEN Front(q) ELSE Back(q)

\* The locals of a process outside any call.
AnyRequest == CHOOSE r \in Requests : TRUE
Fresh == [job |-> AnyRequest, item |-> 0, shard |-> 0, left |-> 0, level |-> 0,
          visits |-> 0, wasIdle |-> FALSE, purged |-> FALSE, signal |-> FALSE,
          then |-> "idle"]

Goto(p, label) == pc' = [pc EXCEPT ![p] = label]
Return(p) == Goto(p, "idle") /\ loc' = [loc EXCEPT ![p] = Fresh]
Unlock(s) == lock' = [lock EXCEPT ![s] = NoProc]
JobShard(p) == ShardOf(loc[p].job.tenant)

Init ==
  /\ mode = "open"
  /\ estimate = 0
  /\ pending = {} /\ cancelled = {} /\ late = {} /\ current = {}
  /\ task = <<>>
  /\ queue = [t \in Tenants |-> [i \in Prios |-> {}]]
  /\ deficit = [t \in Tenants |-> [i \in Prios |-> 0]]
  /\ active = [t \in Tenants |-> [i \in Prios |-> FALSE]]
  /\ attempts = [t \in Tenants |-> 0]
  /\ ring = [s \in Shards |-> [i \in Prios |-> <<>>]]
  /\ lock = [s \in Shards |-> NoProc]
  /\ activeShards = <<>>
  /\ shardActive = [s \in Shards |-> FALSE]
  /\ fate = [x \in Ids |-> "none"]
  /\ pc = [p \in Procs |-> "idle"]
  /\ freed = [p \in Procs |-> {}]
  /\ loc = [p \in Procs |-> Fresh]

-----------------------------------------------------------------------------
(* Shared by every caller: release_reserved_slots, then notify_all. *)

Release(p) ==
  /\ pc[p] = "release"
  /\ estimate' = IF Cardinality(freed[p]) <= estimate
                 THEN estimate - Cardinality(freed[p]) ELSE 0
  /\ freed' = [freed EXCEPT ![p] = {}]
  /\ Goto(p, "notify")
  /\ UNCHANGED <<mode, pending, cancelled, entryVars, drrVars, shardVars, lock,
                 current, loc>>

\* Mutant: wakes one sleeper.
NotifyOne(p) ==
  /\ pc[p] = "notify"
  /\ current' = current \ {CHOOSE q \in current \cup {NoProc} :
                            current # {} => q \in current}
  /\ IF loc[p].then = "idle" THEN Return(p)
                             ELSE Goto(p, loc[p].then) /\ UNCHANGED loc
  /\ UNCHANGED <<mode, slotVars, entryVars, drrVars, shardVars, lock, freed>>

NotifyAll(p) ==
  /\ pc[p] = "notify"
  /\ current' = {}
  /\ IF loc[p].then = "idle" THEN Return(p)
                             ELSE Goto(p, loc[p].then) /\ UNCHANGED loc
  /\ UNCHANGED <<mode, slotVars, entryVars, drrVars, shardVars, lock, freed>>

-----------------------------------------------------------------------------
(* enqueue: enqueue_try_reject (policies Reject and Timeout) and           *)
(* enqueue_drop_with_handle (the two Drop policies).                       *)

\* The accept check outside the lock; a Timeout caller then reads the signal.
BeginAttempt(p, r) ==
  /\ Goto(p, "lock")
  /\ loc' = [loc EXCEPT ![p] = [Fresh EXCEPT !.job = r]]
  /\ current' = IF Policy[r.tenant] = "timeout" THEN current \cup {p}
                                                ELSE current
  /\ UNCHANGED <<mode, slotVars, entryVars, drrVars, shardVars, lock, freed>>

Enqueue(p) ==
  /\ pc[p] = "idle"
  /\ mode = "open"
  /\ Len(task) + Cardinality({q \in Producers : pc[q] # "idle"}) < MaxTasks
  /\ \E r \in Requests : BeginAttempt(p, r)

\* enqueue_timeout_with_handle: the wait ends by a notification or the timer.
RetryEnqueue(p) ==
  /\ pc[p] = "wait"
  /\ \/ mode = "open" /\ BeginAttempt(p, loc[p].job)
     \/ /\ mode # "open"
        /\ Return(p)
        /\ UNCHANGED <<mode, slotVars, entryVars, drrVars, shardVars, lock,
                       current, freed>>

\* purge_tenant_for_enqueue, up to the release of the slots it freed.
Purge(p, t, budget) ==
  LET gone == [i \in Prios |-> Purgeable(queue[t][i], budget)]
      removed == UNION {gone[i] : i \in Prios}
      live == Live(removed)
  IN  /\ queue' = [queue EXCEPT ![t] = [i \in Prios |-> @[i] \ gone[i]]]
      /\ active' = [active EXCEPT ![t] =
                      [i \in Prios |-> @[i] /\ queue[t][i] # gone[i]]]
      /\ attempts' = [attempts EXCEPT ![t] = 0]
      /\ cancelled' = cancelled \ removed
      /\ pending' = pending \ live
      /\ freed' = [freed EXCEPT ![p] = live]
      /\ fate' = [x \in Ids |-> IF x \in live THEN "expired" ELSE fate[x]]

\* The shard is locked, the mode checked again, the tenant's state purged.
LockForEnqueue(p) ==
  LET s == JobShard(p)
      t == loc[p].job.tenant
      reason == PurgeReason(t)
  IN  /\ pc[p] = "lock"
      /\ lock[s] = NoProc
      /\ \/ /\ mode # "open"
            /\ Return(p)
            /\ UNCHANGED <<slotVars, queue, fate, active, attempts, lock, freed>>
         \/ /\ mode = "open"
            /\ lock' = [lock EXCEPT ![s] = p]
            /\ loc' = [loc EXCEPT ![p].wasIdle = ~HasWork(s), ![p].then = "admit",
                                  ![p].purged = (reason = "full")]
            /\ estimate' = estimate
            /\ IF reason = "none"
               THEN /\ attempts' = [attempts EXCEPT ![t] = @ + 1]
                    /\ UNCHANGED <<pending, cancelled, queue, fate, active,
                                   freed>>
               ELSE Purge(p, t, Budget(reason))
            /\ Goto(p, IF freed'[p] = {} THEN "admit" ELSE "release")
      /\ UNCHANGED <<mode, task, late, deficit, ring, shardVars, current>>

\* The call is refused; a Timeout caller whose time is not up waits instead.
Refuse(p) ==
  /\ Unlock(JobShard(p))
  /\ \/ Return(p)
     \/ /\ Policy[loc[p].job.tenant] = "timeout"
        /\ Goto(p, "wait")
        /\ loc' = [loc EXCEPT ![p] = [Fresh EXCEPT !.job = loc[p].job]]

Admit(p) ==
  /\ pc[p] = "admit"
  /\ Policy[loc[p].job.tenant] \in {"reject", "timeout"}
  /\ IF TenantFull(loc[p].job.tenant)
     THEN Refuse(p)
     ELSE Goto(p, "reserve") /\ UNCHANGED <<lock, loc>>
  /\ UNCHANGED <<mode, slotVars, entryVars, drrVars, shardVars, current, freed>>

\* A live victim hands its slot over; a cancelled one had given it back.
AdmitByDropping(p) ==
  LET t == loc[p].job.tenant
      prio == loc[p].job.prio
      v == Victim(t, prio)
  IN  /\ pc[p] = "admit"
      /\ Policy[t] \in {"oldest", "newest"}
      /\ \/ /\ ~TenantFull(t) /\ SlotFree
            /\ Goto(p, "reserve")
            /\ UNCHANGED <<pending, cancelled, queue, fate, lock, loc>>
         \/ /\ TenantFull(t) \/ ~SlotFree
            /\ DropLevels(t, prio) = {}
            /\ Refuse(p)
            /\ UNCHANGED <<pending, cancelled, queue, fate>>
         \/ /\ TenantFull(t) \/ ~SlotFree
            /\ DropLevels(t, prio) # {}
            /\ queue' = [queue EXCEPT ![t] = [i \in Prios |-> @[i] \ {v}]]
            /\ cancelled' = cancelled \ {v}
            /\ pending' = pending \ Live({v})
            /\ IF v \in Live({v})
               THEN Goto(p, "push") /\ fate' = [fate EXCEPT ![v] = "dropped"]
               ELSE Goto(p, "reserve") /\ UNCHANGED fate
            /\ UNCHANGED <<lock, loc>>
      /\ UNCHANGED <<mode, estimate, task, late, drrVars, shardVars, current,
                     freed>>

\* try_reserve_slot; when the scheduler is full, one full purge and a retry.
Reserve(p) ==
  LET t == loc[p].job.tenant
  IN  /\ pc[p] = "reserve"
      /\ \/ /\ SlotFree
            /\ estimate' = estimate + 1
            /\ Goto(p, "push")
            /\ UNCHANGED <<pending, cancelled, queue, fate, active, attempts,
                           lock, freed, loc>>
         \/ /\ ~SlotFree /\ ~loc[p].purged
            /\ estimate' = estimate
            /\ Purge(p, t, FullBudget)
            /\ IF freed'[p] = {}
               THEN Refuse(p)
               ELSE /\ Goto(p, "release")
                    /\ loc' = [loc EXCEPT ![p].purged = TRUE,
                                          ![p].then = "reserve"]
                    /\ UNCHANGED lock
         \/ /\ ~SlotFree /\ loc[p].purged
            /\ Refuse(p)
            /\ UNCHANGED <<slotVars, queue, fate, active, attempts, freed>>
      /\ UNCHANGED <<mode, task, late, deficit, ring, shardVars, current>>

\* next_handle, register_pending, push_back, the ring, then the unlock.
Push(p) ==
  LET r == loc[p].job
      t == r.tenant
      x == Len(task) + 1
      wasEmpty == queue[t][r.prio] = {}
      listed == wasEmpty /\ ~active[t][r.prio]
  IN  /\ pc[p] = "push"
      /\ task' = Append(task, r)
      /\ pending' = pending \cup {x}
      /\ fate' = [fate EXCEPT ![x] = "queued"]
      /\ queue' = [queue EXCEPT ![t][r.prio] = @ \cup {x}]
      /\ active' = [active EXCEPT ![t][r.prio] = @ \/ wasEmpty]
      /\ ring' = IF listed
                 THEN [ring EXCEPT ![ShardOf(t)][r.prio] = Append(@, t)]
                 ELSE ring
      /\ Unlock(ShardOf(t))
      /\ IF loc[p].wasIdle \/ MustNotify(queue[t][r.prio])
         THEN /\ Goto(p, IF loc[p].wasIdle THEN "activate" ELSE "notify")
              /\ loc' = [loc EXCEPT ![p].item = x, ![p].signal = MustNotify(queue[t][r.prio]),
                                    ![p].then = "idle"]
         ELSE Return(p)
      /\ UNCHANGED <<mode, estimate, cancelled, late, deficit, attempts,
                     shardVars, current, freed>>

AfterActivation(p) == IF loc[p].signal THEN Goto(p, "notify") /\ UNCHANGED loc
                                       ELSE Return(p)

\* activate_shard: the swap of shard_active ...
Activate(p) ==
  /\ pc[p] = "activate"
  /\ shardActive' = [shardActive EXCEPT ![JobShard(p)] = TRUE]
  /\ IF shardActive[JobShard(p)] THEN AfterActivation(p)
                                 ELSE Goto(p, "publish") /\ UNCHANGED loc
  /\ UNCHANGED <<mode, slotVars, entryVars, drrVars, activeShards, lock,
                 current, freed>>

\* ... and the push onto active_shards.
Publish(p) ==
  /\ pc[p] = "publish"
  /\ activeShards' = Append(activeShards, JobShard(p))
  /\ AfterActivation(p)
  /\ UNCHANGED <<mode, slotVars, entryVars, drrVars, shardActive, lock,
                 current, freed>>

-----------------------------------------------------------------------------
(* cancel and close_*. *)

\* A client can only name a handle whose enqueue has returned.
Handles == (1 .. Len(task)) \ {loc[p].item : p \in Producers}

CancelTake(k) ==
  /\ pc[k] = "idle"
  /\ \E x \in Handles \cap pending :
       /\ pending' = pending \ {x}
       /\ fate' = [fate EXCEPT ![x] = "cancelled"]
       /\ freed' = [freed EXCEPT ![k] = {x}]
       /\ loc' = [loc EXCEPT ![k].item = x]
  /\ Goto(k, "mark")
  /\ UNCHANGED <<mode, estimate, cancelled, task, late, queue, drrVars,
                 shardVars, lock, current>>

CancelMark(k) ==
  /\ pc[k] = "mark"
  /\ cancelled' = cancelled \cup {loc[k].item}
  /\ Goto(k, "release")
  /\ UNCHANGED <<mode, estimate, pending, entryVars, drrVars, shardVars, lock,
                 current, freed, loc>>

\* Mutant: the sleepers are not told.
CloseQuietly(k) ==
  /\ pc[k] = "idle"
  /\ \E m \in CloseModes :
       /\ mode # "immediate" /\ (m = "drain" => mode = "open")
       /\ mode' = m
  /\ UNCHANGED <<slotVars, entryVars, drrVars, shardVars, lock, current, pc,
                 freed, loc>>

\* set_shutdown_mode: open -> drain -> immediate, never back.
Close(k) ==
  /\ pc[k] = "idle"
  /\ \E m \in CloseModes :
       /\ mode # "immediate" /\ (m = "drain" => mode = "open")
       /\ mode' = m
  /\ Goto(k, "notify")
  /\ UNCHANGED <<slotVars, entryVars, drrVars, shardVars, lock, current, freed,
                 loc>>

\* Time passes: the deadline of a queued task is over.
Expire ==
  /\ \E x \in Entries \ late : task[x].deadline /\ late' = late \cup {x}
  /\ UNCHANGED <<mode, slotVars, task, queue, fate, drrVars, shardVars, lock,
                 current, pc, freed, loc>>

-----------------------------------------------------------------------------
(* try_dequeue, and the loops of dequeue_blocking[_timeout] around it. *)

\* work_signal.current(), which a plain try_dequeue does not read.
Observe(c) ==
  /\ pc[c] \in {"idle", "again"}
  /\ current' = IF Kind[c] = "try" THEN current ELSE current \cup {c}
  /\ Goto(c, "enter")
  /\ UNCHANGED <<mode, slotVars, entryVars, drrVars, shardVars, lock, freed,
                 loc>>

\* A blocking consumer that is told Closed has left its loop for good.
ReturnClosed(c) ==
  /\ Goto(c, IF Kind[c] = "blocking" THEN "closed" ELSE "idle")
  /\ loc' = [loc EXCEPT ![c] = Fresh]

EnterTryDequeue(c) ==
  /\ pc[c] = "enter"
  /\ IF mode = "immediate"
     THEN ReturnClosed(c)
     ELSE Goto(c, "pop") /\ loc' = [loc EXCEPT ![c].left = Len(activeShards)]
  /\ UNCHANGED <<mode, slotVars, entryVars, drrVars, shardVars, lock, current,
                 freed>>

PopShard(c) ==
  /\ pc[c] = "pop"
  /\ IF loc[c].left = 0 \/ activeShards = <<>>
     THEN Goto(c, "empty") /\ UNCHANGED <<activeShards, loc>>
     ELSE /\ Goto(c, "grab")
          /\ loc' = [loc EXCEPT ![c].shard = Head(activeShards),
                                ![c].left = @ - 1]
          /\ activeShards' = Tail(activeShards)
  /\ UNCHANGED <<mode, slotVars, entryVars, drrVars, shardActive, lock, current,
                 freed>>

\* The first level from i on whose ring is not empty; its pass makes as many
\* visits as the ring is long.
SeekLevel(c, i) ==
  LET s == loc[c].shard
      levels == {k \in i .. 2 : ring[s][k] # <<>>}
      first == Front(levels)
  IN  IF levels = {}
      THEN Goto(c, "leave") /\ UNCHANGED loc
      ELSE /\ Goto(c, "scan")
           /\ loc' = [loc EXCEPT ![c].level = first,
                                 ![c].visits = Len(ring[s][first])]

LockForDequeue(c) ==
  /\ pc[c] = "grab"
  /\ lock[loc[c].shard] = NoProc
  /\ lock' = [lock EXCEPT ![loc[c].shard] = c]
  /\ SeekLevel(c, 0)
  /\ UNCHANGED <<mode, slotVars, entryVars, drrVars, shardVars, current, freed>>

NextLevel(c) ==
  /\ pc[c] = "scan"
  /\ loc[c].visits = 0
  /\ SeekLevel(c, loc[c].level + 1)
  /\ UNCHANGED <<mode, slotVars, entryVars, drrVars, shardVars, lock, current,
                 freed>>

\* The visit first drops the cancelled and expired entries at the front.
Visit(c) ==
  LET i == loc[c].level
      t == Head(ring[loc[c].shard][i])
      removed == DeadPrefix(queue[t][i])
      expired == Live(removed \ cancelled)
  IN  /\ pc[c] = "scan"
      /\ loc[c].visits > 0
      /\ queue' = [queue EXCEPT ![t][i] = @ \ removed]
      /\ cancelled' = cancelled \ removed
      /\ pending' = pending \ expired
      /\ fate' = [x \in Ids |-> IF x \in expired THEN "expired" ELSE fate[x]]
      /\ freed' = [freed EXCEPT ![c] = expired]
      /\ loc' = [loc EXCEPT ![c].visits = @ - 1, ![c].then = "weigh"]
      /\ Goto(c, IF expired = {} THEN "weigh" ELSE "release")
      /\ UNCHANGED <<mode, estimate, task, late, drrVars, shardVars, lock,
                     current>>

\* Deficit round robin: the front is paid for, or the tenant earns a quantum.
Weigh(c) ==
  LET s == loc[c].shard
      i == loc[c].level
      t == Head(ring[s][i])
      q == queue[t][i]
      x == Front(q)
      rest == Tail(ring[s][i])
  IN  /\ pc[c] = "weigh"
      /\ \/ /\ q = {}
            /\ active' = [active EXCEPT ![t][i] = FALSE]
            /\ ring' = [ring EXCEPT ![s][i] = rest]
            /\ Goto(c, "scan")
            /\ UNCHANGED <<queue, deficit, loc>>
         \/ /\ q # {} /\ ~Affordable(t, i)
            /\ deficit' = [deficit EXCEPT ![t][i] = @ + Quantum[t]]
            /\ ring' = [ring EXCEPT ![s][i] = Append(rest, t)]
            /\ Goto(c, "scan")
            /\ UNCHANGED <<queue, active, loc>>
         \/ /\ q # {} /\ Affordable(t, i)
            /\ queue' = [queue EXCEPT ![t][i] = @ \ {x}]
            /\ IF q = {x}
               THEN /\ active' = [active EXCEPT ![t][i] = FALSE]
                    /\ ring' = [ring EXCEPT ![s][i] = rest]
               ELSE /\ ring' = [ring EXCEPT ![s][i] = Append(rest, t)]
                    /\ UNCHANGED active
            /\ loc' = [loc EXCEPT ![c].item = x]
            /\ Goto(c, "commit")
            /\ UNCHANGED deficit
      /\ UNCHANGED <<mode, slotVars, task, late, fate, attempts, shardVars,
                     lock, current, freed>>

\* The popped task is handed out unless a cancel got to it first.
Commit(c) ==
  LET x == loc[c].item
      t == task[x].tenant
  IN  /\ pc[c] = "commit"
      /\ IF x \in Live({x}) \ cancelled
         THEN /\ pending' = pending \ {x}
              /\ fate' = [fate EXCEPT ![x] = "delivered"]
              /\ deficit' = [deficit EXCEPT ![t][loc[c].level] =
                               @ - task[x].cost]
              /\ freed' = [freed EXCEPT ![c] = {x}]
              /\ loc' = [loc EXCEPT ![c].then = "leave"]
              /\ Goto(c, "release")
              /\ UNCHANGED cancelled
         ELSE /\ cancelled' = cancelled \ {x}
              /\ loc' = [loc EXCEPT ![c].item = 0]
              /\ Goto(c, "scan")
              /\ UNCHANGED <<pending, fate, deficit, freed>>
      /\ UNCHANGED <<mode, estimate, task, late, queue, active, attempts, ring,
                     shardVars, lock, current>>

\* try_dequeue returns the task it has, or goes on to the next shard.
ReturnOrGoOn(c) ==
  IF loc[c].item # 0 THEN Return(c)
  ELSE /\ Goto(c, "pop")
       /\ loc' = [loc EXCEPT ![c] = [Fresh EXCEPT !.left = loc[c].left]]

LeaveShard(c) ==
  LET s == loc[c].shard
  IN  /\ pc[c] = "leave"
      /\ Unlock(s)
      /\ IF HasWork(s)
         THEN Goto(c, "putback") /\ UNCHANGED <<shardActive, loc>>
         ELSE /\ shardActive' = [shardActive EXCEPT ![s] = FALSE]
              /\ ReturnOrGoOn(c)
      /\ UNCHANGED <<mode, slotVars, entryVars, drrVars, activeShards, current,
                     freed>>

PutBackShard(c) ==
  /\ pc[c] = "putback"
  /\ activeShards' = Append(activeShards, loc[c].shard)
  /\ ReturnOrGoOn(c)
  /\ UNCHANGED <<mode, slotVars, entryVars, drrVars, shardActive, lock, current,
                 freed>>

\* No task: Closed, or Empty for a try_dequeue or a timed call that is over.
NoTask(c) ==
  /\ pc[c] = "empty"
  /\ \/ ClosedFor /\ ReturnClosed(c)
     \/ ~ClosedFor /\ Kind[c] # "blocking" /\ Return(c)
     \/ ~ClosedFor /\ Kind[c] # "try" /\ Goto(c, "doze") /\ UNCHANGED loc
  /\ UNCHANGED <<mode, slotVars, entryVars, drrVars, shardVars, lock, current,
                 freed>>

\* Another round while slots are in use, else sleep until the signal changes.
Doze(c) ==
  /\ pc[c] = "doze"
  /\ Goto(c, IF estimate > 0 THEN "again" ELSE "wait")
  /\ loc' = [loc EXCEPT ![c] = Fresh]
  /\ UNCHANGED <<mode, slotVars, entryVars, drrVars, shardVars, lock, current,
                 freed>>

WakeUp(c) ==
  /\ pc[c] = "wait"
  /\ c \notin current \/ Kind[c] = "timed"
  /\ Goto(c, "again")
  /\ UNCHANGED <<mode, slotVars, entryVars, drrVars, shardVars, lock, current,
                 freed, loc>>

-----------------------------------------------------------------------------
ProducerStep(p) ==
  \/ RetryEnqueue(p) \/ LockForEnqueue(p) \/ Admit(p) \/ AdmitByDropping(p)
  \/ Reserve(p) \/ Push(p) \/ Activate(p) \/ Publish(p)
ConsumerStep(c) ==
  \/ Observe(c) \/ EnterTryDequeue(c) \/ PopShard(c) \/ LockForDequeue(c)
  \/ NextLevel(c) \/ Visit(c) \/ Weigh(c) \/ Commit(c) \/ LeaveShard(c)
  \/ PutBackShard(c) \/ NoTask(c) \/ Doze(c) \/ WakeUp(c)

Next ==
  \/ \E p \in Producers : Enqueue(p) \/ ProducerStep(p)
  \/ \E c \in Consumers : ConsumerStep(c)
  \/ \E k \in Cancellers : CancelTake(k) \/ CancelMark(k)
  \/ \E k \in Closers : Close(k)
  \/ \E p \in Procs : Release(p) \/ NotifyAll(p)
  \/ Expire

Spec == Init /\ [][Next]_vars
=============================================================================
