# Verification of firq

firq is an in-process, multi-tenant scheduler. `firq-core` keeps per-tenant
queues, serves them by priority and deficit round robin, and bounds its memory
by capacity limits and backpressure policies; `firq-async` wraps it for Tokio;
`firq-tower` builds a request-scheduling layer on it. This directory holds TLA+
models of that code, the TLC runs that check them and the TLAPS proofs about
them. `firq-core`'s scheduler and its metrics, the consumers of `firq-async` and
the layer of `firq-tower` are modelled; every invariant a run checks on them is
proved, and the scheduler is proved to implement its abstract specification.

## Inventory

| Component | State | Operations | What makes it correct |
|---|---|---|---|
| Enqueue and policies (`scheduler.rs` 451-474, 827-1080) | shard locks, slot counter | `enqueue*` under Reject, Timeout, DropOldest, DropNewest | capacity never exceeded; one slot per live task; nobody accepted after close; a waiting producer is woken by room |
| Tenant queues and purge (`scheduler.rs` 237-375) | three queues and an attempt counter per tenant | purge at full, near-limit, every 32nd attempt | only dead entries removed; FIFO kept; slots of expired tasks returned once |
| Slots and cancellation (87-125, 208-235, 476-490) | `queue_len_estimate`, `pending_ids`, `cancelled_ids` | reserve, release, `cancel` | counter exact; each task settled once; markers bounded |
| Deficit round robin (536-641) | three rings per shard, deficits, `active` flags | a dequeue pass | tenants with work are in a ring, once; deficits bounded; priority order |
| Active shards (127-131, 493-534) | `active_shards`, `shard_active` | activate, pop, put back | a shard with work is known to exactly one place |
| `WorkSignal` (`state.rs` 206-247) | sequence number, condvar | `current`, `notify_all`, waits | no sleep on stale information |
| Shutdown (133-186, 794-812) | `shutdown_state` | `close_*` | one way only; drained before Closed; everybody released |
| `ActiveRing` (`state.rs` 24-69) | buffer and head index | push, pop, compaction | a FIFO queue |
| Quantum configuration (377-422) | overrides, provider | set, clear, set provider | the tenant's quantum ends up the last one set |
| Metrics, histogram (64-85, 188-206, 724-792) | atomic counters | record, `stats` | counters agree with what happened |
| `TopTenants` (`state.rs` 154-204) | at most `capacity` counts | `record`, `snapshot` | counts overestimate by a bounded amount |
| `AsyncScheduler`, `AsyncReceiver`, `AsyncStream` (`firq-async`) | a pending future | delegation over `spawn_blocking` | no task lost between poll and return |
| `AsyncWorkerReceiver` (`firq-async` 222-274) | thread, bounded channel, shutdown flag | worker loop, `recv`, drop | order kept; drop always joins |
| `Dispatcher` (`firq-async` 326-374) | semaphore | `run` | at most `max_in_flight` handlers; waits for all |
| `FirqLayer`, `FirqService`, `BackgroundWorker` (`firq-tower`) | semaphore, worker thread, one oneshot per request | `call`, worker loop, cancel guard, drop | in-flight bound; permits never leak; every future ends |
| Prometheus (`prometheus.rs`) | - | `render_stats` | cumulative buckets that end at the count |
| Builder, rejection mapping, bench, examples | - | configuration, samples | not concurrent, no state |

The parts interact through shared memory. A producer locks its tenant's shard,
purges, reserves a slot in the global counter, registers the handle, pushes and
lists the tenant in the shard's ring; after the unlock it lists the shard in
`active_shards` and notifies the signal. A consumer takes a shard out of
`active_shards`, locks it, walks the rings from High to Low, takes the handle
of the entry it popped, releases the slot, notifies, clears `shard_active` or
puts the shard back. A canceller touches only the handle sets, the counter and
the signal, without a shard lock. The hard behaviours follow: everything that
is decided under one lock and acted on after it, and everything that two of
pending set, marker set, queue and counter have to agree on. `PROJECT.json`
lists them as hazards at the lines where they bite.

## Modules

- `TaskLedger` is the abstract specification: tasks are accepted into free
  slots, and each is settled once as delivered, expired, dropped or cancelled;
  delivery is FIFO per tenant and priority; only overdue tasks expire; no call
  is let in after close. It knows no locks, rings or threads' program counters.
- `Scheduler` is the model of `firq-core`, one action per stretch of code
  between two accesses to what other threads see. `pc` names the place in the
  code: `lock`, `admit`, `reserve`, `push`, `activate`, `publish` for enqueue;
  `enter`, `pop`, `grab`, `scan`, `weigh`, `commit`, `leave`, `putback`,
  `empty`, `doze`, `wait`, `again`, `closed` for dequeue; `mark` for cancel;
  `release` and `notify` for the release-and-notify that all of them end in
  (`loc[p].then` says where they go on). Every action has its lines in
  `PROJECT.json`. A few operators marked "mutant" are variants of their
  neighbours with a plausible bug, used to check that the properties can fail.
- `SchedulerProps` holds the properties, the fairness and the refinement
  mapping to `TaskLedger`.
- `SchedulerPasses` is `Scheduler` with a history variable: `before[c]` holds the
  deficits that consumer `c` found when it locked the shard it walks. It adds no
  behaviour (`PassesSchedule`), and lets `PayersFirst` say which order of
  priorities a pass does keep.
- `MCScheduler` and `MCPasses` hold the instances TLC runs.
- `SchedulerProofs` (types, slots, drain), `SchedulerLedger` (nothing lost, the
  refinement of `TaskLedger`), `SchedulerService` (deficits and reachability),
  `SchedulerWakes` (sleepers) and `SchedulerPriority` (order of priorities) hold
  the theorems about `Scheduler`, each extending the one it needs; `TowerProofs`,
  `AsyncProofs` and `NumbersProofs` those about the modules below.
- `TowerLayer`, `TowerProps`, `MCTower`: `firq-tower` on top of a scheduler that
  is `TaskLedger` itself (`Ledger == INSTANCE TaskLedger`): what the layer may
  rely on is what `Scheduler` is shown to implement, and no more.
- `AsyncConsumers`, `AsyncProps`, `MCAsync`: the three ways `firq-async` consumes
  a scheduler, again over `TaskLedger`.
- `ShardNumbers`, `ShardNumbersProps`: what one shard's mutex protects, at the
  level `Scheduler` abstracts: the ring's buffer, i64 deficits, and quanta that
  change at run time.
- `TopTenants`, `Metrics`, `MetricsProps`: the counters and the summary, written
  and read one memory access at a time, and the Prometheus text. `MCNumbers` puts
  these machines and `ShardNumbers` side by side in one run, in which one of them
  moves.

### State

`estimate` is `queue_len_estimate`; `pending` and `cancelled` the two handle
sets; `queue`, `deficit`, `active`, `attempts` the fields of `TenantState`;
`ring` the `active_rings`; `activeShards` and `shardActive` the active-shard
ring; `mode` the shutdown state. `current` abstracts the signal's sequence
number to the set of threads whose last reading is still current, which is all
a wait compares. `late` is the clock: the tasks whose deadline has passed.
`freed` holds the tasks whose slots a thread has taken on and not yet released,
and `fate` records what became of each task.

A task is its handle. Handles are given out in increasing order, and a queue
receives them under its shard's lock, so a queue is modelled as the set of its
handles: front is the least, back the greatest.

### Atomicity

An action accesses several shared objects only where no other thread can tell.

- Removing a dead entry checks its marker, then takes its handle. The only step
  another thread can put in between is one of a `cancel` of that very handle,
  and the outcome is that of the `cancel` step before or after both.
- A scan over a whole queue, and the visit of a ring entry, touch one handle
  after another; a `cancel` in the middle of a scan gives the outcome of one
  before or after it, per handle. The releases of a visit are made one by one
  in the code and as one step here, after the last removal: others only see
  slots in use a little longer, which they also do when the thread is slow.
- A failed reservation or the fullness test of a drop, and the removal that
  follows, read the counter first. Other threads' releases in between can be
  put after the removal, for they touch nothing the removal reads.
- The popped entry of `Weigh` and the hand-out of `Commit` are separate steps,
  and so are `take_pending` and `mark_cancelled` of `cancel`: those races are
  real, and one of them is a finding.
- The accept check under the lock and the purge are one step: closing does not
  touch what the purge reads.

### The tower layer

`future[r]` is how far the call `r` and the future it returned have got: inside
`call` (`calling`), returned and not polled (`made`), awaiting its permit
(`waiting`), inside the inner service (`serving`), or an outcome. A oneshot
channel is the membership of `r` in `sent`, since its sender is with the task or
the worker and its receiver with the future. `permits` is the semaphore's count,
`worker` and `hand` the dequeue thread and its task, `owner` the progress of
`BackgroundWorker::drop`. Dropping a waiting future takes two steps, for its
receiver is dropped before its `PendingCancelGuard` cancels, and the worker may
send in between. A future keeps an `Arc` of the scheduler but not of the worker,
so the layer can go while requests still wait.

### The async consumers

A thread in `dequeue` is inside a blocking dequeue, `scan` is its pass over the
queues, `task` and `closed` its results. `call[u]` is the pool thread whose
result the stream (or `AsyncReceiver::recv`, whose loop is the same) or the
dispatcher awaits; a thread nobody awaits any more is an orphan and drops what it
takes. `rx` follows the drop of an `AsyncWorkerReceiver` field by field. `got`
and `lost` record where each task ended up. The dispatcher gets a task when it
spawns its handler (`SpawnHandler`); the handler is called when the runtime first
polls the spawned future (`StartHandler`, recorded in `started`), which it does in
any order, and the permit goes with the end of that future (`EndHandler`).

### Numbers and metrics

`ring.buf` and `ring.head` are `ActiveRing`'s fields and `order` the queue it
stands for. One turn of `try_dequeue_from_shard` is one `Visit`, with `n` dead
entries taken off the front; the pass holds the shard's mutex while `left > 0`.
Deficits wrap beyond `MaxI64` as in a release build (a debug build panics there).
`set_tenant_quantum` is three steps, the write of the map, the two reads of
`quantum_for`, and the store under the mutex; `set_quantum_provider` is the write
and the refresh of the shard's tenants. The purge that empties a queue is left to
`Scheduler`, so a tenant is in the ring at most once here.

In `Metrics`, `todo` holds what a thread has still to add, in the code's order,
and `snap` what `stats()` has loaded, in its order. All accesses are in one
global order, which the code's `Ordering::Relaxed` does not promise: what
`ScrapeConsistent` shows is that the program order is right, not that weak memory
keeps it. The percentile's target is computed as the code does it, in `f64`:
`Rounded` is the conversion and the product, to the nearest multiple of the power
of two whose 53-bit multiples still cover the value, ties to the even one, and
`Share` the literal. Its parameters are `Mantissa`, the code's 2^53, and `Grids`,
the powers of two. A snapshot does not relate the
counters it loads at different moments: it may show more dequeued than enqueued,
or fewer drops than the sum of their reasons, when calls overlap the read.

## Runs

Deadlock is not checked: producers and clients may stop calling, and a run ends
when all its tasks are settled. The runs up to `priority` instantiate
`MCScheduler`, `admission` through its extension with the history, `MCPasses`.

| Run | Instance | What it shows |
|---|---|---|
| `admission` | 1 shard, tenants with Timeout and Reject, 2 producers, a timed consumer, a canceller; dear High tasks and cheap Low ones; `MaxGlobal` 2, `MaxPerTenant` 1 | types and locks; slots exact; tenants and shards reachable; deficits bounded; no producer sleeps on room; nobody passes a High task that could be paid for; refines `TaskLedger` |
| `dropping` | 1 shard, tenants with DropOldest and DropNewest, deadlines, a polling consumer, a canceller; both limits 2 | slots exact when slots change hands; nothing lost; deliveries in order of acceptance within a tenant and priority; refines `TaskLedger` |
| `closing` | 2 shards, 2 producers, 2 blocking consumers, a closer with both modes; `MaxGlobal` 1 | inductive slot invariant; shards reachable with several consumers; no sleep on work without cancellation; Closed in drain mode means drained |
| `live` | 1 tenant, 1 producer, 2 blocking consumers, a closer, fairness | every accepted task is settled; every consumer is released by a close |
| `marker_leak` | a canceller against a consumer | finding: a marker left behind |
| `double_quantum` | tasks that expire, real purge constants | finding: a tenant twice in a round |
| `lost_wakeup` | 2 blocking consumers, a canceller | finding: a consumer sleeps on a queued task |
| `drain_race` | a closer in drain mode | finding: a task accepted after the consumers left |
| `priority` | a dear High task and a cheap Low one | finding: Low delivered past High |
| `tower` | 2 requests of one tenant that drops tasks, 1 permit, one with a deadline, both close modes, drop of the layer, fairness | permits conserved when futures are dropped at any await; a request runs only if delivered and fails only for a reason; every polled request is answered, save those the worker leaves behind at Closed; `in_flight_active` returns to 0; the layer's drop returns |
| `async` | 3 tasks; a worker receiver with a channel of 2, or a stream and a dispatcher of 2 permits on 2 pool threads; 1 abandoned call; both close modes; fairness | every dequeued task is held, delivered or lost to somebody who gave up; each user takes its tasks in order, and a handler is called past fewer than `max_in_flight` spawned before it; handlers bounded and awaited; drop joins; close ends every user |
| `numbers` | shard: 2 tenants, 3-bit words, 2 configuring threads; metrics: 2 recording threads, 2 reads, `u64::MAX` 22; summary: 3 tenants in 2 places | the ring is a queue; deficits in range are served in time; the last undisturbed quantum is in force; scrapes are consistent; p95 within p99 always, and both exact while the sum is; the summary's error bounded |

Bounds. `MaxTasks` bounds the tasks ever accepted, 2 or 3: enough for an entry
behind a dead one, a victim and a replacement, a full tenant and a third
arrival. Limits of 1 and 2 make both capacity limits bind. The passing runs set
`PurgeInterval`, `NearPercent` and the scan budgets to small values so that
periodic, near-limit and full purges all occur and budgets run out; the
violation runs use the code's own constants. Costs of 1 and 2 with quantum 1
make a task that needs more than one visit. `Symmetry` permutes producers and
consumers in runs that check no liveness.

Fairness (`live`). Each thread in a call is weakly fair; a thread that waits
for a shard lock is strongly fair, because parking_lot's mutexes are eventually
fair. Consumers are assumed to call dequeue again after every task, as the
worker loops in `firq-async` and `firq-tower` do. Producers need not call
again, clients need not cancel or close, deadlines need not pass.

Bounds (`tower`, `async`, `numbers`). Two requests over one permit make one wait
for the other, replace the other and race with the worker and the layer's drop;
three requests give 1.2 million states and were checked for safety only. Three
tasks and a channel of two leave one in the worker's hand. `U32` 4 stands for
2^32; the limit stays below it, so that `run` waits for every handler, and what
`HandlersGated` says of a limit that the cast truncates is proved and not run. One
abandoned call leaves an orphan thread or a handler without its dispatcher; two
take twice the time and showed nothing new. 3-bit words make a cost
that is clamped, a quantum that turns negative and sums that wrap; `Compact` 1
stands for 64. `Past` starts the metrics from histograms of 0, 20 and 22 tasks,
where p95 and p99 fall into different buckets and counters saturate. `Mantissa`
4096 rounds every product with a share but no total, and meets the condition
`FloatAssumption` puts on the literals' error, which 2^53 meets too; 150 times the
run's totals stay below it, where the percentiles are claimed exact.

Fairness (`tower`, `async`). The runtime polls a woken future that is still
there, polls a spawned one at some time, threads run, and a user asks for the next
item until there is none. Handlers of the dispatcher end; handlers of the tower layer need not, and
`RequestsAnswered` has their ending as its premise. Nobody is assumed to drop a
future, cancel, close, or drop the layer.

What some of the properties leave out is the code's doing. `RequestsAnswered`
excuses a request whose task is queued when the worker stops at Closed
(`Stranded`): its sender stays in a scheduler that the request itself keeps
alive, and it waits until its client gives up. `QuantumInForce` speaks of calls
that no other call overlapped: of two that race, the older value may be stored
last. `ServedInTime` speaks of quanta for which no sum leaves an `i64`; the model
has the cast and the wrap beyond, where a tenant may starve. `PayersFirst` exempts a
tenant and priority behind any earlier cancelled task of theirs, which is more than
the window between a look and a pop that makes the exemption necessary.
`ImplementsLedger` lets a drop take the oldest or newest task of any tenant and
priority; that it is the caller's tenant, searched from the lowest priority up, is in
the model (`Victim`) and in no property. `TasksAccounted` bounds what abandoned calls lose and does not exclude it:
a dropped `recv` leaves a pool thread that takes a task for nobody.

## Findings

- `marker_leak`: `cancel` removes the handle (`scheduler.rs` 482) before it
  inserts the marker (483). If a consumer drops the entry in between, the marker
  stays in `cancelled_ids` for ever.
- `lost_wakeup`: `enqueue` notifies only if the queue was empty (943), counting
  cancelled entries. A consumer asleep at zero slots in use is not woken by a
  task pushed behind one. The next notification, whatever its cause, ends it.
- `double_quantum`: a purge clears `active` without taking the tenant out of
  the ring (298-300); the next push lists it twice.
- `drain_race`: an enqueue between its last accept check and its reservation
  when `close_drain` comes is completed after the consumers were told Closed.
- `priority`: dispatch order is strict only among tenants with enough deficit
  (`PayersFirst` says what does hold).

## Proofs

The theorems hold for every value of the constants that satisfies the modules'
assumptions, which the runs evaluate: finite sets of threads, calls and tenants
where they are counted, limits and budgets that are naturals, quanta of at least
1 in `Scheduler` (the configuration makes them so), histogram bounds that are not
empty and ascend. `RequestsAssumption` says that there are finitely many different
requests, for keys and costs are `u64`; it gives `DeficitBound` its greatest
cost. Widths are constants too: `MaxI64`, `MaxU64` and `U32` are any, so nothing
rests on the small words of the runs. Those of `f64` are in `FloatAssumption`:
`Grids` are the powers of two up to one above `u64::MAX`, and the literals 0.95 and
0.99 are nearest to their shares with an error of less than half a percentage's
worth of a step, as 2^53 makes them.

An invariant is proved by an inductive one that TLC checked first, with one lemma
per action, or per kind of step where many actions do the same to what the
invariant is about.

### Scheduler

- `TypeCorrect`. `TypeOK` alone is not inductive: a consumer's `Head(ring)` is a
  tenant only if the ring is not empty. `TypeInv` adds that a thread inside a
  shard owns its mutex (`MutualExclusion`), that a pass has a ring entry left for
  each visit it will make (`VisitsCovered`; nobody else can shorten the ring, by
  mutual exclusion), and that the task and the return point a thread holds are
  set (`LocalsSet`).
- `SlotInvariant`, `SlotsAlwaysExact`. `queue_len_estimate` is the number of live
  tasks, plus the slots held by producers about to push, plus those taken and not
  yet released. `SlotInv` adds that only threads in `mark` or `release` hold slots
  to release. Each step leaves the owed set alone, moves tasks from pending to one
  thread's hands, gives slots back, reserves one, hands a victim's slot to the
  push, or fills a reserved slot. `CapacityHolds` is a corollary: at most
  `MaxGlobal` tasks live.
- `DrainIsComplete`. A consumer told Closed in drain mode saw the counter at 0,
  so by exactness nothing is owed.
- `LedgerInvariant`, `NoTaskIsLost`, `TenantCapacityHolds`. A live task is in its
  queue or in the hand of a consumer about to commit. To step, this needs that
  entries are in the queue they were pushed on (`QueuesSorted`) and rings list
  tenants of their own shard (`RingsLocal`), so that holding one mutex is enough;
  that a marker, also one about to be inserted, never names a live task
  (`MarkersSettled`), or a purge would drop it; that a popped task is older than
  what its queue still holds (`PoppedFirst`); and that a tenant a producer was let
  into still has room at the push (`TenantsBounded`).
- `Refinement`: `Spec => Ledger!Spec`. It is proved with one lemma
  for each action. The accept check under the lock is `Ledger!Admit`, or, when the purge
  that goes with it removes overdue tasks, an `Ledger!Expire` that lets the call in;
  a Drop policy is the ledger's drop of the oldest or newest; `Push` is the
  acceptance, for which the slot that the producer reserved and the room in
  `TenantsBounded` show that the ledger has capacity left; `Commit` delivers the
  head of its queue, by `PoppedFirst`; the `take` half of `cancel` is the ledger's
  cancellation and the mark half a stutter, as are releases, wake-ups and the
  walk over rings. Closing is the same step in both.
- `DeliveriesInOrder`. The ledger's `Deliver` asks that no older task of the same
  tenant and priority is still queued; what remains is that nothing later puts
  one there. `OrderInv` adds that only an accepted task has a fate, so a new one,
  whose handle is the greatest, comes last. It is preserved by every step of the
  ledger, and by the refinement the scheduler takes no others.
- `DeficitsBounded`. Between popping an entry and paying for it a consumer is in
  `commit`, and `DeficitInv` says that its task is affordable; only a consumer
  that serves touches deficits, and by mutual exclusion no two serve one shard.
- `ReachInvariant`, `TasksInReach`. A shard is in one of four situations
  (`ShardReached`): idle and nowhere, listed, served by one consumer, or being
  woken by one producer; `HasWork` and `shard_active` say which. The step
  that could break it is a push: it wakes the shard only if it was idle, which the
  producer read when it locked it, and `IdleKnown` says that it still is.
- `NoSleepWithoutCancel`. Without cancellers, no consumer sleeps while a task is
  queued and no thread is on its way to notify. The premise is needed:
  `lost_wakeup` shows the property false with a canceller, since the wake-up is
  decided by whether the queue was empty and cancelled entries count.
- `RoomInvariant`, `NoSleepWhenRoom`. With cancellers and all policies, a Timeout
  producer that sleeps on a current signal has a thread that frees a slot ahead of
  its notification, or a full scheduler, or a tenant full of entries that cannot
  go without a slot being freed (`Crowded`). The last is what makes it inductive:
  marked entries fill a tenant without holding slots, and their purge notifies
  nobody. The producer purged before it slept, so the fronts were live, and a
  live front can only go by freeing its slot.

- `PassInvariant`, `PriorityAmongPayers`. The code's priority is strict among the
  tenants that can pay, and the proof found the exceptions: a front that died
  since, and one whose tenant's turn went to an older task that was cancelled
  between the look at the front and the pop. `PassInv` follows a pass: deficits in
  the shard only grow until the delivery, every level it has left and the part of
  the ring it has turned hold nobody who could have paid (`PassTrue`), and an entry
  that is not live was cancelled (`EntriesKnown`). The last comes from the
  refinement: a settled task stays settled, and only a cancellation leaves its
  entry. Other threads cannot disturb a pass, for what it reads of the shard
  changes only under its lock (`OnlyUnderLock`), and a level skipped for its empty
  ring has no tenant with work, by `ReachInvariant`.

### Tower and async layers

- `TowerInvariant`, with `TowerTypeCorrect`, `PermitsAlwaysConserved` and
  `OutcomesTrue`. Permits move between semaphore, worker, channel and handler, one
  lemma per kind of move. That outcomes are true needs `CallsLinked`: accepted
  tasks and calls correspond one to one, what the worker holds or has sent was
  delivered, and a delivered task whose future still waits was sent to it, or
  dropped after the semaphore closed.
- `AsyncInvariant`, with `AsyncTypeCorrect`, `AllTasksAccounted`,
  `OrderAlwaysKept`, `StartsAlwaysInOrder` and `HandlersAlwaysGated`. Counting places needs that no task is
  in two of them (`TasksApart`). The bound on losses is inductive only together
  with the threads that still dequeue for a dropped call and with what a dropped
  receiver may still lose (`LossesBounded`); order needs it of what is on the way
  as well as of what arrived (`OrderOnTheWay`). Order ends at the spawn. What is
  left of it when handlers start is counted: those spawned and not yet called hold
  a permit each (`StartsInv`), and so does the one being called.

### Numbers and metrics

- `ShardInvariant`, with `ShardTypeCorrect`, `RingAlwaysQueue`,
  `AlwaysServedInTime` and `QuantumTakesEffect`. In range, each credit raises a
  deficit by at least one and the deficit before a credit is below the cost that
  it could not pay (`CreditsPaid`), so credits are bounded and the sum cannot wrap.
  A configuring call that runs alone knows the value `quantum_for` returns from
  its read to its store (`CallsTold`).
- `MetricsInvariant`, with `MetricsTypeCorrect`, `SnapshotsAlwaysMonotone` and
  `TopTenantsAlwaysBounded`. Counters only grow and snapshots are below them
  (`Above`). For the summary, the least count of a full list never falls, so that
  what was true of an evicted tenant stays true.
- `ScrapeInvariant`, with `ScrapeAlwaysConsistent` and `PercentilesAlwaysExact`.
  A delivery counts its sample before its bucket and a refusal its drop before the
  reason, so that, until they are full, the first leads the second by exactly the
  threads in between (`LeadsKept`); a read loads the buckets first, so it never
  sees them above the samples (`ReadTrue`). The proof showed one condition that
  the instance of the run cannot: drops are the sum of their reasons only until
  `dropped` itself has reached `u64::MAX`, for the two saturate apart. p95 stays
  within p99 because rounding is monotone, also across a change of grid
  (`RoundedOrdered`, `TargetOrdered`). The target is the exact ceiling while 150
  times the total is below 2^53 (`TargetExact`): in steps of 1/2^53 the
  literal shifts the product by less than half the total and rounding by at most
  the total, too little to pass the next whole number; and where the share of the
  total is whole, the product rounds back to it, for its grid is coarser than the
  literal's error. From 2^53/150 on, which is 6 * 10^13 samples, the
  target may be off by one and only the order is claimed. Partial
  sums are handled by the least element of a set of indices (`Ladder`, `Chain`,
  `Rungs`) instead of the library's induction theorems.

### Model-checked only

- Liveness, for the prover does neither fairness nor `ENABLED`:
  `EveryTaskSettled`, `ConsumersReleased`, `RequestsAnswered`, `AllReturned`,
  `DropReturns`, `ReceiverDropReturns`, `CloseEndsUsers`.
- `NoSleepOnWork` with a canceller is refuted, and proved without one; the other
  findings are counterexamples on instances.
- One layer together with the detailed `Scheduler`. What the layers assume of it
  is `TaskLedger`, which `Scheduler` implements (`Refinement`); that they do no
  more to it than the ledger allows is proved too (`TowerUsesLedger`,
  `AsyncUsesLedger`), and unsurprising, for their actions are written with the
  ledger's own. That joining the two pieces gives the whole rests on this reading,
  not on a run or a theorem.

## Not modelled, and the plan

- `Scheduler`: a `cancel` that finds nothing; `max_per_tenant` 0 only in so far
  as every tenant is then full; a tenant's state is created on first use in the
  code and exists from the start here, with the same empty contents. Quanta that
  change and integer widths are in `ShardNumbers`, the other counters in
  `Metrics`.
- `firq-async`: `try_dequeue` and `stats` through the wrapper (they only
  forward); the branch for an Empty result, which `dequeue_blocking` never
  returns; a panic or a runtime shutdown that makes a join handle fail; the end of
  a blocking pool that is out of threads.
- `firq-tower`: `poll_ready` (it forwards); how long `call` blocks its executor
  thread under a Timeout policy; cost and priority, which are fixed. The layer is
  one worker and one scheduler; several layers over one scheduler are not
  modelled. A future that was never polled keeps the permit sent to it until it
  is dropped: fairness polls it.
- Left out for good: the wording of the Prometheus text, the builder's setters,
  the HTTP bodies of rejections, the benchmarks and the examples. The benchmark's
  baseline `FifoQueue` closes without its mutex and may leave a worker asleep; it
  is not part of the product.

What is left is stronger than what the runs check: the order of service across
shards, and one layer composed with the detailed `Scheduler`.
