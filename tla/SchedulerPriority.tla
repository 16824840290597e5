------------------------- MODULE SchedulerPriority -------------------------
(***************************************************************************)
(* That priority is strict among the tenants of a shard that can pay, for  *)
(* any number of threads, tenants, shards and tasks: first what a step     *)
(* does to tasks that are settled and to shards its thread does not hold,  *)
(* then what it does to the pass of a consumer.                            *)
(***************************************************************************)
EXTENDS SchedulerWakes, SchedulerPasses

\* A step of thread p, one the proofs tell apart by kind.
Acts(p) == Serves(p) \/ (p \in Consumers /\ (Weigh(p) \/ Commit(p)))

LEMMA ActsMoves ==
  ASSUME Grounds, NEW p, Acts(p)
  PROVE  p \in Procs /\ \E l, v : Moves(p, l, v)
  <1>1. CASE Serves(p)
    BY <1>1, ServesMoves
  <1>2. CASE p \in Consumers /\ Weigh(p)
    BY <1>2, WeighEffect DEF Procs
  <1>3. CASE p \in Consumers /\ Commit(p)
    BY <1>3, CommitTakes DEF Procs
  <1> QED
    BY <1>1, <1>2, <1>3 DEF Acts

-----------------------------------------------------------------------------
(* Settled tasks stay settled. *)

LEMMA HandlesInIds ==
  ASSUME TypeInv, LedgerInv
  PROVE  DOMAIN task \subseteq Ids
  <1>1. Len(task) \in Nat /\ DOMAIN task = 1 .. Len(task) /\ MaxTasks \in Nat
    BY EntryFacts, SchedulerAssumption
  <1>2. Coming \subseteq Procs /\ IsFiniteSet(Procs)
    BY SchedulerAssumption DEF Coming, Procs
  <1>3. Cardinality(Coming) \in Nat
    BY <1>2, FS_Subset, FS_CardinalityType
  <1>4. Len(task) <= MaxTasks
    BY <1>1, <1>3 DEF LedgerInv, HandlesLeft
  <1> QED
    BY <1>1, <1>4 DEF Ids

\* No step changes a task, takes a missed deadline back, or gives a task that is
\* settled another fate: the ledger allows none.
LEMMA LedgerKeeps ==
  ASSUME Grounds, Grounds', [Next]_vars
  PROVE  /\ \A x \in DOMAIN task : task'[x] = task[x] /\ x \in DOMAIN task'
         /\ late \subseteq late'
         /\ \A x \in DOMAIN task \ pending : fate'[x] = fate[x] /\ x \notin pending'
  <1> USE DEF Grounds
  <1>1. LedgerStep
    BY StepOfLedger
  <1>2. /\ Len(task) \in Nat /\ DOMAIN task = 1 .. Len(task) /\ task \in Seq(Requests)
        /\ fate \in [Ids -> Fates]
    BY EntryFacts DEF TypeInv, TypeOK, SharedOK
  <1>3. DOMAIN task \subseteq Ids
    BY HandlesInIds
  <1>4. Ledger!Queued = pending
    BY QueuedIsPending
  <1>5. ASSUME /\ \A x \in DOMAIN task : task'[x] = task[x] /\ x \in DOMAIN task'
               /\ late \subseteq late'
               /\ \A x \in DOMAIN task \ pending : fate'[x] = fate[x]
        PROVE  \A x \in DOMAIN task \ pending : x \notin pending'
    BY <1>3, <1>5 DEF LedgerInv, FatesTrue
  <1>6. ASSUME NEW S \in SUBSET pending, NEW outcome, Ledger!Settle(S, outcome)
        PROVE  /\ \A x \in DOMAIN task : task'[x] = task[x] /\ x \in DOMAIN task'
               /\ late \subseteq late'
               /\ \A x \in DOMAIN task \ pending : fate'[x] = fate[x]
    BY <1>3, <1>6 DEF Ledger!Settle
  <1>7. CASE \E p \in Producers, r \in Requests : Ledger!Accept(p, r)
    <2>1. PICK r \in Requests : /\ task' = Append(task, r) /\ late' = late
                                /\ fate' = [fate EXCEPT ![Len(task) + 1] = "queued"]
      BY <1>7 DEF Ledger!Accept
    <2>2. \A x \in DOMAIN task : task'[x] = task[x] /\ x \in DOMAIN task'
      BY <1>2, <2>1
    <2>3. \A x \in DOMAIN task : fate'[x] = fate[x]
      BY <1>2, <1>3, <2>1
    <2> QED
      BY <1>5, <2>1, <2>2, <2>3
  <1>8. CASE \/ UNCHANGED <<mode, task, late, fate, Inside>>
             \/ \E p \in Producers : Ledger!Admit(p) \/ Ledger!Refuse(p)
             \/ \E m \in {"drain", "immediate"} : Ledger!Close(m)
             \/ \E x \in DOMAIN task : Ledger!PassTime(x)
    BY <1>5, <1>8 DEF Ledger!Admit, Ledger!Refuse, Ledger!Close, Ledger!PassTime
  <1>9. CASE \/ \E p \in Producers : \E x \in pending : Ledger!Drop(p, x)
             \/ \E x \in pending : Ledger!Deliver(x) \/ Ledger!Cancel(x)
             \/ \E S \in SUBSET pending : Ledger!Expire(S)
    <2>1. \E S \in SUBSET pending : \E outcome : Ledger!Settle(S, outcome)
      BY <1>9 DEF Ledger!Drop, Ledger!Deliver, Ledger!Cancel, Ledger!Expire
    <2> QED
      BY <1>5, <1>6, <2>1
  <1> QED
    BY <1>1, <1>4, <1>7, <1>8, <1>9 DEF LedgerStep, Ledger!Next

\* The tasks R leave the queues, and the pending set with them.
Leave(R) ==
  /\ R \subseteq Entries /\ pending' = pending \ R
  /\ \A t \in Tenants, i \in Prios : queue'[t][i] = queue[t][i] \ R
\* A new task comes to a queue.
Comes(y) ==
  /\ pending' = pending \cup {y}
  /\ \A t \in Tenants, i \in Prios : queue'[t][i] \subseteq queue[t][i] \cup {y}
\* A cancel takes a task and leaves its entry.
Cancelled(y) ==
  /\ y \in pending /\ queue' = queue /\ fate' = [fate EXCEPT ![y] = "cancelled"]
  /\ pending' = pending \ {y}

LEMMA EntryInQueue ==
  ASSUME TypeInv, NEW x
  PROVE  x \in Entries <=> \E t \in Tenants, i \in Prios : x \in queue[t][i]
  BY EntryFacts DEF Entries

\* What a step that pops no task does to the entries.
LEMMA ServesEntries ==
  ASSUME Grounds, NEW p, Serves(p)
  PROVE  (\E R : Leave(R)) \/ (\E y : Comes(y)) \/ (\E y : Cancelled(y))
  <1> USE DEF Grounds
  <1>1. ASSUME UNCHANGED <<pending, queue>>
        PROVE  Leave({})
    BY <1>1 DEF Leave
  <1>2. ASSUME p \in Producers, NEW R, Takes(R),
               \A x \in R : \E i \in Prios : x \in queue[loc[p].job.tenant][i]
        PROVE  Leave(R)
    <2>1. p \in Procs /\ loc[p].job.tenant \in Tenants
      BY <1>2, LocFields DEF TypeInv, Procs
    <2>2. R \subseteq Entries
      BY <1>2, <2>1, EntryInQueue
    <2> QED
      BY <1>2, <2>2 DEF Takes, Leave
  <1>3. ASSUME p \in Producers, NEW budget, Purge(p, loc[p].job.tenant, budget)
        PROVE  \E R : Leave(R)
    <2>1. p \in Procs /\ loc[p].job.tenant \in Tenants
      BY <1>3, LocFields DEF TypeInv, Procs
    <2>2. PICK R : /\ Takes(R)
                   /\ \A x \in R : \E i \in Prios : x \in queue[loc[p].job.tenant][i]
      BY <1>3, <2>1, PurgeTakes
    <2> QED
      BY <1>2, <1>3, <2>2
  <1>4. CASE p \in Producers /\ (LockForEnqueue(p) \/ Reserve(p))
    <2>1. UNCHANGED <<pending, queue>> \/ \E budget : Purge(p, loc[p].job.tenant, budget)
      BY <1>4 DEF LockForEnqueue, Reserve, slotVars
    <2> QED
      BY <1>1, <1>3, <1>4, <2>1
  <1>5. CASE p \in Producers /\ AdmitByDropping(p)
    BY <1>2, <1>5, DropTakes
  <1>6. CASE p \in Producers /\ Push(p)
    <2>1. Comes(Len(task) + 1)
      BY <1>6, PushEffect DEF Comes
    <2> QED
      BY <2>1
  <1>7. CASE p \in Consumers /\ Visit(p)
    <2>1. PICK t \in Tenants, i \in Prios : Takes(DeadPrefix(queue[t][i]))
      BY <1>7, VisitTakes
    <2>2. queue[t][i] \in SUBSET Nat
      BY EntryFacts
    <2>3. DeadPrefix(queue[t][i]) \subseteq Entries
      BY <2>2, PurgeableDead, EntryInQueue
    <2>4. Leave(DeadPrefix(queue[t][i]))
      BY <2>1, <2>3 DEF Takes, Leave
    <2> QED
      BY <2>4
  <1>8. CASE p \in Cancellers /\ CancelTake(p)
    BY <1>8 DEF CancelTake, Cancelled
  <1>9. CASE \/ p \in Producers /\ \/ Enqueue(p) \/ RetryEnqueue(p) \/ Admit(p)
                                    \/ Activate(p) \/ Publish(p)
             \/ p \in Consumers /\ Polls(p)
             \/ p \in Cancellers /\ CancelMark(p)
             \/ p \in Closers /\ Close(p)
             \/ p \in Procs /\ (Release(p) \/ NotifyAll(p))
    <2>1. UNCHANGED <<pending, queue>>
      BY <1>9 DEF Enqueue, RetryEnqueue, BeginAttempt, Admit, Activate, Publish, Polls,
           Observe, EnterTryDequeue, PopShard, LockForDequeue, NextLevel, LeaveShard,
           PutBackShard, NoTask, Doze, WakeUp, CancelMark, Close, Release, NotifyAll,
           slotVars, entryVars
    <2> QED
      BY <1>1, <2>1
  <1> QED
    BY <1>4, <1>5, <1>6, <1>7, <1>8, <1>9 DEF Serves, ProducerStep

\* Tasks come to be popped out of the queues, by the step that weighs a tenant,
\* and a commit is done with its own.
LEMMA PoppedAfter ==
  ASSUME Grounds, Grounds', NEW p, Acts(p)
  PROVE  /\ Serves(p) => PoppedTasks' \subseteq PoppedTasks
         /\ p \in Consumers /\ Weigh(p) => PoppedTasks' \subseteq PoppedTasks \cup Entries
         /\ p \in Consumers /\ Commit(p) =>
              PoppedTasks' \subseteq PoppedTasks \ {loc[p].item}
  <1> USE DEF Grounds
  <1>1. p \in Procs /\ \E l, v : Moves(p, l, v)
    BY ActsMoves
  <1>2. /\ \A q \in Procs \ {p} : pc'[q] = pc[q] /\ loc'[q] = loc[q]
        /\ \A c \in Consumers : c \in Procs /\ c \notin Producers
    BY <1>1, PhaseSets, SchedulerAssumption DEF TypeInv, Procs
  <1>3. ASSUME pc'[p] # "commit"
        PROVE  PoppedTasks' \subseteq PoppedTasks
    BY <1>2, <1>3 DEF PoppedTasks
  <1>4. ASSUME Serves(p)
        PROVE  PoppedTasks' \subseteq PoppedTasks
    <2>1. pc'[p] # "commit"
      BY <1>4, ServesMoves, PhaseSets DEF TypeInv
    <2> QED
      BY <1>3, <2>1
  <1>5. ASSUME p \in Consumers, Weigh(p)
        PROVE  PoppedTasks' \subseteq PoppedTasks \cup Entries
    <2> DEFINE t == Head(ring[loc[p].shard][loc[p].level])
               i == loc[p].level
               x == Front(queue[t][i])
    <2>1. t \in Tenants /\ i \in Prios /\ loc[p] \in LocType
      <3>1. pc[p] = "weigh"
        BY <1>5 DEF Weigh
      <3> QED
        BY <1>1, <1>5, <3>1, AtTheRing DEF TypeInv, TypeOK
    <2>2. CASE queue' = queue /\ Moves(p, "scan", loc[p])
      <3>1. pc'[p] # "commit"
        BY <1>1, <2>2, PhaseSets DEF TypeInv
      <3> QED
        BY <1>3, <3>1
    <2>3. CASE queue[t][i] # {} /\ Moves(p, "commit", [loc[p] EXCEPT !.item = x])
      <3>1. queue[t][i] \in SUBSET Nat
        <4> HIDE DEF t, i
        <4> QED
          BY <2>1, EntryFacts
      <3>2. x \in queue[t][i]
        BY <2>3, <3>1, FrontInQueue
      <3> HIDE DEF x, t, i
      <3>3. loc'[p].item = x
        <4>1. loc'[p] = [loc[p] EXCEPT !.item = x]
          BY <1>1, <2>3, PhaseSets DEF TypeInv
        <4> QED
          BY <2>1, <4>1 DEF LocType
      <3>4. x \in Entries
        BY <2>1, <3>2, EntryInQueue
      <3> QED
        BY <1>2, <3>3, <3>4 DEF PoppedTasks
    <2> QED
      BY <1>5, <2>2, <2>3, WeighEffect
  <1>6. ASSUME p \in Consumers, Commit(p)
        PROVE  PoppedTasks' \subseteq PoppedTasks \ {loc[p].item}
    <2>1. pc[p] = "commit" /\ pc'[p] # "commit"
      <3>1. (\E v : Moves(p, "release", v)) \/ (\E v : Moves(p, "scan", v))
        BY <1>6, CommitTakes
      <3> QED
        BY <1>1, <1>6, <3>1, PhaseSets DEF Commit, TypeInv
    <2>2. ASSUME NEW c \in Consumers, pc'[c] = "commit"
          PROVE  loc'[c].item \in PoppedTasks \ {loc[p].item}
      <3>1. c # p /\ pc[c] = "commit" /\ loc'[c] = loc[c]
        BY <1>2, <2>1, <2>2
      <3>2. /\ Locking(c) /\ HeldShard(c) = ShardOf(task[loc[c].item].tenant)
            /\ Locking(p) /\ HeldShard(p) = ShardOf(task[loc[p].item].tenant)
        BY <1>2, <1>6, <2>1, <3>1 DEF Locking, HeldShard, LedgerInv, PoppedFirst, PoppedBy
      <3>3. loc[c].item # loc[p].item
        BY <1>1, <1>2, <3>1, <3>2, Alone
      <3> QED
        BY <3>1, <3>3 DEF PoppedTasks
    <2> QED
      BY <2>2 DEF PoppedTasks
  <1> QED
    BY <1>4, <1>5, <1>6

LEMMA WeighShrinks ==
  ASSUME Grounds, NEW c \in Consumers, Weigh(c), NEW t \in Tenants, NEW i \in Prios
  PROVE  queue'[t][i] \subseteq queue[t][i]
  <1> DEFINE z == Head(ring[loc[c].shard][loc[c].level])
             j == loc[c].level
             x == Front(queue[z][j])
  <1>1. \/ queue' = queue
        \/ \A u \in Tenants, k \in Prios :
             queue'[u][k] = IF u = z /\ k = j THEN queue[u][k] \ {x} ELSE queue[u][k]
    BY WeighEffect
  <1> HIDE DEF z, j, x
  <1> QED
    BY <1>1

\* Only a cancel leaves an entry behind that is not live.
LEMMA KnownStays ==
  ASSUME Grounds, Grounds', EntriesKnown, NEW p, Acts(p), [Next]_vars
  PROVE  EntriesKnown'
  <1> USE DEF Grounds
  <1> DEFINE Follows(x) ==
        x \in pending' \/ (x \in Held /\ (x \notin pending \/ fate'[x] = "cancelled"))
  <1>1. Held \subseteq DOMAIN task /\ PoppedTasks \cap Entries = {}
    <2>1. \A c \in Consumers : pc[c] = "commit" => loc[c].item \in DOMAIN task
      BY DEF TypeInv, LocalsSet, Procs
    <2> QED
      BY <2>1, PoppedOut, EntryInQueue DEF Held, PoppedTasks, Entries
  <1>2. \A x \in DOMAIN task \ pending : fate'[x] = fate[x]
    BY LedgerKeeps
  <1>3. ASSUME \A x \in Held' : Follows(x)
        PROVE  EntriesKnown'
    BY <1>1, <1>2, <1>3 DEF EntriesKnown
  <1>4. \A x : x \in Entries' <=> \E t \in Tenants, i \in Prios : x \in queue'[t][i]
    BY DEF Entries, TypeInv, TypeOK, SharedOK
  <1>5. CASE Serves(p)
    <2>1. PoppedTasks' \subseteq PoppedTasks
      BY <1>5, PoppedAfter
    <2>2. ASSUME NEW R, Leave(R)
          PROVE  EntriesKnown'
      <3>1. Entries' \subseteq Entries \ R
        BY <1>4, <2>2, EntryInQueue DEF Leave
      <3>9. \A x \in Held' : Follows(x)
        BY <1>1, <2>1, <2>2, <3>1 DEF Leave, Held
      <3> QED
        BY <1>3, <3>9
    <2>3. ASSUME NEW y, Comes(y)
          PROVE  EntriesKnown'
      <3>1. Entries' \subseteq Entries \cup {y}
        BY <1>4, <2>3, EntryInQueue DEF Comes
      <3>9. \A x \in Held' : Follows(x)
        BY <2>1, <2>3, <3>1 DEF Comes, Held
      <3> QED
        BY <1>3, <3>9
    <2>4. ASSUME NEW y, Cancelled(y)
          PROVE  EntriesKnown'
      <3>1. y \in Ids /\ fate \in [Ids -> Fates]
        BY <2>4, QueuedIsPending DEF TypeInv, TypeOK, SharedOK, Ledger!Queued, Cancelled
      <3>2. Entries' \subseteq Entries
        BY <1>4, <2>4, EntryInQueue DEF Cancelled
      <3>3. fate'[y] = "cancelled"
        BY <2>4, <3>1 DEF Cancelled
      <3>9. \A x \in Held' : Follows(x)
        BY <2>1, <2>4, <3>2, <3>3 DEF Cancelled, Held
      <3> QED
        BY <1>3, <3>9
    <2> QED
      BY <1>5, <2>2, <2>3, <2>4, ServesEntries
  <1>6. CASE p \in Consumers /\ Weigh(p)
    <2>1. PoppedTasks' \subseteq PoppedTasks \cup Entries
      BY <1>6, PoppedAfter
    <2>2. pending' = pending
      BY <1>6 DEF Weigh, slotVars
    <2>3. Entries' \subseteq Entries
      BY <1>4, <1>6, WeighShrinks, EntryInQueue
    <2>9. \A x \in Held' : Follows(x)
      BY <2>1, <2>2, <2>3 DEF Held
    <2> QED
      BY <1>3, <2>9
  <1>7. CASE p \in Consumers /\ Commit(p)
    <2>1. PoppedTasks' \subseteq PoppedTasks \ {loc[p].item}
      BY <1>7, PoppedAfter
    <2>2. pc[p] = "commit" /\ queue' = queue /\ pending' = pending \ {loc[p].item}
      BY <1>7, CommitTakes DEF Commit, Takes
    <2>3. Entries' \subseteq Entries \ {loc[p].item}
      BY <1>1, <1>4, <1>7, <2>2, EntryInQueue DEF PoppedTasks
    <2>9. \A x \in Held' : Follows(x)
      BY <2>1, <2>2, <2>3 DEF Held
    <2> QED
      BY <1>3, <2>9
  <1> QED
    BY <1>5, <1>6, <1>7 DEF Acts

-----------------------------------------------------------------------------
(* A shard only changes under its lock. *)

\* What the lock of shard s guards, as far as a pass looks at it.
ShardSame(s) ==
  /\ \A i \in Prios : ring'[s][i] = ring[s][i]
  /\ \A t \in Tenants, i \in Prios : ShardOf(t) = s =>
       queue'[t][i] = queue[t][i] /\ deficit'[t][i] = deficit[t][i]

\* A thread that neither holds a shard nor takes its lock leaves it as it is.
LEMMA OnlyUnderLock ==
  ASSUME Grounds, NEW p, Acts(p), NEW s \in Shards, lock[s] \notin {p, NoProc}
  PROVE  ShardSame(s)
  <1> USE DEF Grounds
  <1>1. /\ TypeOK /\ p \in Procs
        /\ queue \in [Tenants -> [Prios -> SUBSET DOMAIN task]]
        /\ deficit \in [Tenants -> [Prios -> Int]]
        /\ ring \in [Shards -> [Prios -> Seq(Tenants)]]
    BY ActsMoves DEF TypeInv, TypeOK, SharedOK
  <1>2. Locking(p) => HeldShard(p) # s
    BY <1>1 DEF TypeInv, MutualExclusion
  <1>3. ASSUME UNCHANGED <<queue, deficit, ring>>
        PROVE  ShardSame(s)
    BY <1>3 DEF ShardSame
  <1>4. ASSUME p \in Producers
        PROVE  /\ loc[p].job.tenant \in Tenants /\ loc[p].job.prio \in Prios
               /\ HeldShard(p) = ShardOf(loc[p].job.tenant) /\ JobShard(p) = HeldShard(p)
    BY <1>1, <1>4, LocFields DEF TypeInv, HeldShard, JobShard
  <1>5. ASSUME p \in Producers, HeldShard(p) # s, UNCHANGED <<deficit, ring>>,
               \A z \in Tenants \ {loc[p].job.tenant} : queue'[z] = queue[z]
        PROVE  ShardSame(s)
    BY <1>4, <1>5 DEF ShardSame
  <1>6. CASE p \in Producers /\ LockForEnqueue(p)
    <2>1. lock[JobShard(p)] = NoProc /\ UNCHANGED <<deficit, ring>>
      BY <1>6 DEF LockForEnqueue
    <2>2. HeldShard(p) # s
      BY <1>4, <1>6, <2>1
    <2>3. queue' = queue \/ \E budget : Purge(p, loc[p].job.tenant, budget)
      BY <1>6 DEF LockForEnqueue
    <2>4. \A z \in Tenants \ {loc[p].job.tenant} : queue'[z] = queue[z]
      BY <1>1, <2>3 DEF Purge
    <2> QED
      BY <1>5, <1>6, <2>1, <2>2, <2>4
  <1>7. CASE p \in Producers /\ Reserve(p)
    <2>1. HeldShard(p) # s
      BY <1>2, <1>7 DEF Reserve, Locking
    <2>2. queue' = queue \/ \E budget : Purge(p, loc[p].job.tenant, budget)
      BY <1>7 DEF Reserve
    <2>3. \A z \in Tenants \ {loc[p].job.tenant} : queue'[z] = queue[z]
      BY <1>1, <2>2 DEF Purge
    <2>4. UNCHANGED <<deficit, ring>>
      BY <1>7 DEF Reserve
    <2> QED
      BY <1>5, <1>7, <2>1, <2>3, <2>4
  <1>8. CASE p \in Producers /\ AdmitByDropping(p)
    <2>1. HeldShard(p) # s
      BY <1>2, <1>8 DEF AdmitByDropping, Locking
    <2>2. \A z \in Tenants \ {loc[p].job.tenant} : queue'[z] = queue[z]
      BY <1>8, DropEffect
    <2>3. UNCHANGED <<deficit, ring>>
      BY <1>8 DEF AdmitByDropping, drrVars
    <2> QED
      BY <1>5, <1>8, <2>1, <2>2, <2>3
  <1>9. CASE p \in Producers /\ Push(p)
    <2> DEFINE r == loc[p].job
    <2>1. HeldShard(p) # s /\ ShardOf(r.tenant) \in Shards
      BY <1>2, <1>4, <1>9, ShardOfType DEF Push, Locking
    <2>2. \A z \in Tenants, i \in Prios : z # r.tenant => queue'[z][i] = queue[z][i]
      BY <1>9, PushEffect
    <2>3. /\ deficit' = deficit
          /\ \/ ring' = ring
             \/ ring' = [ring EXCEPT ![ShardOf(r.tenant)][r.prio] = Append(@, r.tenant)]
      BY <1>9 DEF Push
    <2>4. ring'[s] = ring[s]
      BY <1>1, <1>4, <1>9, <2>1, <2>3
    <2> QED
      BY <1>4, <1>9, <2>1, <2>2, <2>3, <2>4 DEF ShardSame
  <1>10. ASSUME p \in Consumers, Locking(p), NEW t \in Tenants, ShardOf(t) = loc[p].shard,
                \A z \in Tenants \ {t}, i \in Prios :
                  queue'[z][i] = queue[z][i] /\ deficit'[z][i] = deficit[z][i],
                \A z \in Shards \ {loc[p].shard}, i \in Prios : ring'[z][i] = ring[z][i]
         PROVE  ShardSame(s)
    <2>1. HeldShard(p) = loc[p].shard
      BY <1>10, SchedulerAssumption DEF HeldShard
    <2> QED
      BY <1>2, <1>10, <2>1 DEF ShardSame
  <1>11. CASE p \in Consumers /\ (Visit(p) \/ Weigh(p))
    <2> DEFINE i == loc[p].level
               t == Head(ring[loc[p].shard][i])
    <2>1. t \in Tenants /\ i \in Prios /\ Locking(p) /\ ShardOf(t) = loc[p].shard
          /\ loc[p].shard \in Shards
      BY <1>11, AtTheRing DEF Visit, Weigh
    <2>2. /\ \E q : queue' = queue \/ queue' = [queue EXCEPT ![t][i] = q]
          /\ \E d : deficit' = deficit \/ deficit' = [deficit EXCEPT ![t][i] = d]
          /\ \E r : ring' = ring \/ ring' = [ring EXCEPT ![loc[p].shard][i] = r]
      <3>1. CASE Visit(p)
        BY <3>1, Zenon DEF Visit, drrVars
      <3>2. CASE Weigh(p)
        BY <3>2, Zenon DEF Weigh
      <3> QED
        BY <1>11, <3>1, <3>2
    <2> HIDE DEF t, i
    <2>3. \A z \in Tenants \ {t}, j \in Prios :
            queue'[z][j] = queue[z][j] /\ deficit'[z][j] = deficit[z][j]
      BY <1>1, <2>1, <2>2
    <2>4. \A z \in Shards \ {loc[p].shard}, j \in Prios : ring'[z][j] = ring[z][j]
      BY <1>1, <2>1, <2>2
    <2> QED
      BY <1>10, <1>11, <2>1, <2>3, <2>4
  <1>12. CASE p \in Consumers /\ Commit(p)
    <2> DEFINE x == loc[p].item
               t == task[x].tenant
               i == loc[p].level
    <2>1. /\ pc[p] = "commit" /\ queue' = queue /\ ring' = ring
          /\ deficit' = deficit \/ \E d : deficit' = [deficit EXCEPT ![t][i] = d]
      BY <1>12, Zenon DEF Commit
    <2>2. x \in DOMAIN task /\ t \in Tenants /\ i \in Prios
      BY <1>1, <1>12, <2>1, EntryFacts, LocFields DEF TypeInv, LocalsSet
    <2>3. Locking(p) /\ ShardOf(t) = loc[p].shard
      BY <1>12, <2>1 DEF Locking, LedgerInv, PoppedFirst, PoppedBy
    <2> HIDE DEF t, i
    <2>4. \A z \in Tenants \ {t}, j \in Prios : deficit'[z][j] = deficit[z][j]
      BY <1>1, <2>1, <2>2
    <2> QED
      BY <1>10, <1>12, <2>1, <2>2, <2>3, <2>4
  <1>13. CASE \/ p \in Producers /\ \/ Enqueue(p) \/ RetryEnqueue(p) \/ Admit(p)
                                     \/ Activate(p) \/ Publish(p)
              \/ p \in Consumers /\ Polls(p)
              \/ p \in Cancellers /\ (CancelTake(p) \/ CancelMark(p))
              \/ p \in Closers /\ Close(p)
              \/ p \in Procs /\ (Release(p) \/ NotifyAll(p))
    <2>1. UNCHANGED <<queue, deficit, ring>>
      BY <1>13 DEF Enqueue, RetryEnqueue, BeginAttempt, Admit, Activate, Publish, Polls,
           Observe, EnterTryDequeue, PopShard, LockForDequeue, NextLevel, LeaveShard,
           PutBackShard, NoTask, Doze, WakeUp, CancelTake, CancelMark, Close, Release,
           NotifyAll, entryVars, drrVars
    <2> QED
      BY <1>3, <2>1
  <1> QED
    BY <1>6, <1>7, <1>8, <1>9, <1>11, <1>12, <1>13 DEF Acts, Serves, ProducerStep

-----------------------------------------------------------------------------
(* The pass of a consumer. *)

\* A pass is made under the lock of its shard.
LEMMA PassLocks ==
  ASSUME TypeInv, NEW c \in Consumers, InPass(c)
  PROVE  /\ c \in Procs /\ c \notin Producers /\ Locking(c)
         /\ HeldShard(c) = loc[c].shard /\ lock[loc[c].shard] = c
         /\ loc[c].shard \in Shards /\ loc[c].level \in Prios /\ loc[c].visits \in Nat
  <1>1. c \in Procs /\ c \notin Producers
    BY SchedulerAssumption DEF Procs
  <1>2. Locking(c) /\ HeldShard(c) = loc[c].shard
    BY <1>1 DEF InPass, Weighing, Locking, HeldShard
  <1>3. lock[loc[c].shard] = c
    BY <1>1, <1>2 DEF TypeInv, MutualExclusion
  <1> QED
    BY <1>1, <1>2, <1>3, LocFields DEF TypeInv

\* A tenant that was rightly passed over stays so while its queue does.
LEMMA StillPassed ==
  ASSUME Grounds, Grounds', [Next]_vars, NEW c \in Consumers,
         NEW t \in Tenants, NEW i \in Prios, PassedOver(c, t, i),
         queue'[t][i] = queue[t][i], before'[c] = before[c]
  PROVE  PassedOver(c, t, i)'
  <1> USE DEF Grounds
  <1> SUFFICES ASSUME queue'[t][i] # {}
               PROVE  LET y == Front(queue[t][i])
                      IN  \/ before'[c][t][i] < task'[y].cost
                          \/ y \notin pending' \/ y \in late'
                          \/ \E x \in Ids :
                               /\ x < y /\ fate'[x] = "cancelled"
                               /\ task'[x].tenant = task'[y].tenant
                               /\ task'[x].prio = task'[y].prio
    BY DEF PassedOver, CancelledAhead
  <1> DEFINE y == Front(queue[t][i])
  <1>1. /\ \A x \in DOMAIN task : task'[x] = task[x] /\ x \in DOMAIN task'
        /\ late \subseteq late'
        /\ \A x \in DOMAIN task \ pending : fate'[x] = fate[x] /\ x \notin pending'
    BY LedgerKeeps
  <1>2. /\ queue[t][i] \in SUBSET Nat /\ queue[t][i] \subseteq DOMAIN task
        /\ DOMAIN task = 1 .. Len(task) /\ Len(task) \in Nat
    BY EntryFacts
  <1>3. y \in DOMAIN task
    BY <1>2, FrontInQueue
  <1> HIDE DEF y
  <1>4. CASE before[c][t][i] < task[y].cost \/ y \notin pending \/ y \in late
    BY <1>1, <1>3, <1>4 DEF y
  <1>5. CASE CancelledAhead(y)
    <2>1. PICK x \in Ids : /\ x < y /\ fate[x] = "cancelled"
                           /\ task[x].tenant = task[y].tenant /\ task[x].prio = task[y].prio
      BY <1>5 DEF CancelledAhead
    <2>2. x \in DOMAIN task /\ x \notin pending
      BY <1>2, <1>3, <2>1 DEF Ids, LedgerInv, FatesTrue
    <2>3. /\ fate'[x] = "cancelled"
          /\ task'[x].tenant = task'[y].tenant /\ task'[x].prio = task'[y].prio
      BY <1>1, <1>3, <2>1, <2>2
    <2> QED
      BY <2>1, <2>3 DEF y
  <1> QED
    BY <1>4, <1>5 DEF PassedOver, y

\* A pass goes on over steps of other threads, and while its own thread releases
\* slots and notifies.
LEMMA PassGoesOn ==
  ASSUME Grounds, Grounds', [Next]_vars, NEW c \in Consumers, InPass(c), PassTrue(c),
         pc'[c] = "commit" <=> pc[c] = "commit", Weighing(c)' <=> Weighing(c),
         loc'[c] = loc[c], before'[c] = before[c], ShardSame(loc[c].shard)
  PROVE  PassTrue(c)'
  <1> USE DEF Grounds
  <1>1. loc[c].shard \in Shards /\ loc[c].level \in Prios
    BY PassLocks
  <1>2. ToVisit(c)' = ToVisit(c)
    BY DEF ToVisit
  <1> SUFFICES ASSUME NEW t \in Tenants, NEW i \in Prios, ShardOf(t) = loc[c].shard
               PROVE  /\ before'[c][t][i] <= deficit'[t][i]
                      /\ i <= loc[c].level /\ ~Ahead(c, t, i)' /\ ~Popped(c, t, i)' =>
                           PassedOver(c, t, i)'
    BY DEF PassTrue
  <1>3. queue'[t][i] = queue[t][i] /\ deficit'[t][i] = deficit[t][i]
    BY DEF ShardSame
  <1>4. Ahead(c, t, i)' <=> Ahead(c, t, i)
    BY <1>1, <1>2 DEF Ahead, ShardSame
  <1>5. Popped(c, t, i)' <=> Popped(c, t, i)
    <2>1. ASSUME pc[c] = "commit"
          PROVE  task'[loc[c].item] = task[loc[c].item]
      <3>1. loc[c].item \in DOMAIN task
        BY <2>1 DEF TypeInv, LocalsSet, Procs
      <3> QED
        BY <3>1, LedgerKeeps
    <2> QED
      BY <2>1 DEF Popped
  <1> QED
    BY <1>3, <1>4, <1>5, StillPassed DEF PassTrue

\* The search for a level finds a ring of the shard that is not empty, and passes
\* over none that has a tenant with work.
LEMMA SeekPass ==
  ASSUME Grounds, Grounds', ReachInv, NEW c \in Consumers, NEW n \in 0 .. 3,
         SeekLevel(c, n), pc'[c] = "scan", UNCHANGED <<ring, queue, deficit>>,
         \A t \in Tenants, i \in Prios : ShardOf(t) = loc[c].shard =>
           /\ before'[c][t][i] <= deficit[t][i]
           /\ i < n => PassedOver(c, t, i)'
  PROVE  PassTrue(c)'
  <1> USE DEF Grounds
  <1> DEFINE s == loc[c].shard
             levels == {k \in n .. 2 : ring[s][k] # <<>>}
             first == Front(levels)
  <1>1. c \in Procs /\ TypeOK /\ loc[c] \in LocType
    BY DEF Procs, TypeInv, TypeOK
  <1>2. levels # {} /\ loc' = [loc EXCEPT ![c].level = first, ![c].visits = Len(ring[s][first])]
    BY <1>1 DEF SeekLevel, Goto, TypeOK
  <1>3. first \in levels /\ \A k \in levels : first <= k
    <2>1. levels \in SUBSET Nat
      OBVIOUS
    <2> HIDE DEF levels
    <2> QED
      BY <1>2, <2>1, FrontInQueue
  <1>4. first \in Prios /\ first \in n .. 2
    BY <1>3 DEF Prios
  <1> HIDE DEF first
  <1>5. loc'[c].shard = s /\ loc'[c].level = first /\ loc'[c].visits = Len(ring[s][first])
    BY <1>1, <1>2 DEF LocType, TypeOK
  <1>6. ToVisit(c)' = Len(ring[s][first])
    BY <1>5 DEF ToVisit, Weighing
  <1> SUFFICES ASSUME NEW t \in Tenants, NEW i \in Prios, ShardOf(t) = s,
                      i <= first, ~Ahead(c, t, i)'
               PROVE  PassedOver(c, t, i)'
    BY <1>5 DEF PassTrue
  <1>7. CASE i < n
    BY <1>7
  <1>8. CASE i >= n
    <2>1. ASSUME InRing(t, i)
          PROVE  FALSE
      <3>1. PICK k \in DOMAIN ring[s][i] : ring[s][i][k] = t
        BY <2>1 DEF InRing
      <3>2. ring[s][i] \in Seq(Tenants)
        BY <1>1 DEF TypeOK, SharedOK, LocType
      <3>3. k \in 1 .. Len(ring[s][i]) /\ ring[s][i] # <<>>
        BY <3>1, <3>2
      <3>4. i \in levels
        BY <1>8, <3>3 DEF Prios
      <3>5. i = first
        BY <1>3, <1>4, <3>4 DEF Prios
      <3> QED
        BY <1>5, <1>6, <3>1, <3>3, <3>5 DEF Ahead
    <2>2. queue[t][i] = {}
      BY <2>1 DEF ReachInv, RingsServed
    <2> QED
      BY <2>2 DEF PassedOver
  <1> QED
    BY <1>4, <1>7, <1>8 DEF Prios

\* A pass begins with nothing passed over but empty levels.
LEMMA LockPass ==
  ASSUME Grounds, Grounds', ReachInv, NEW c \in Consumers, LockForDequeue(c),
         InPass(c)', before'[c] = deficit
  PROVE  PassTrue(c)'
  <1> USE DEF Grounds
  <1>1. /\ SeekLevel(c, 0) /\ UNCHANGED <<ring, queue, deficit>>
        /\ c \in Procs /\ TypeOK
    BY DEF LockForDequeue, entryVars, drrVars, Procs, TypeInv
  <1>2. pc'[c] = "scan"
    BY <1>1 DEF SeekLevel, Goto, InPass, Weighing, TypeOK
  <1>3. ASSUME NEW t \in Tenants, NEW i \in Prios
        PROVE  before'[c][t][i] <= deficit[t][i] /\ ~(i < 0)
    <2>1. deficit[t][i] \in Int
      BY <1>1 DEF TypeOK, SharedOK
    <2> QED
      BY <2>1 DEF Prios
  <1> QED
    BY <1>1, <1>2, <1>3, SeekPass

\* A level whose ring has been all around is done with.
LEMMA NextPass ==
  ASSUME Grounds, Grounds', ReachInv, [Next]_vars, NEW c \in Consumers, NextLevel(c),
         PassTrue(c), InPass(c)', before'[c] = before[c]
  PROVE  PassTrue(c)'
  <1> USE DEF Grounds
  <1>1. /\ pc[c] = "scan" /\ loc[c].visits = 0 /\ SeekLevel(c, loc[c].level + 1)
        /\ UNCHANGED <<ring, queue, deficit>> /\ c \in Procs /\ TypeOK
        /\ loc[c].level \in Prios
    BY LocFields DEF NextLevel, entryVars, drrVars, Procs, TypeInv
  <1>2. pc'[c] = "scan"
    BY <1>1 DEF SeekLevel, Goto, InPass, Weighing, TypeOK
  <1>3. ASSUME NEW t \in Tenants, NEW i \in Prios, ShardOf(t) = loc[c].shard
        PROVE  /\ before'[c][t][i] <= deficit[t][i]
               /\ i < loc[c].level + 1 => PassedOver(c, t, i)'
    <2>1. ~Ahead(c, t, i) /\ ~Popped(c, t, i)
      BY <1>1 DEF Ahead, Popped, ToVisit, Weighing
    <2>2. i < loc[c].level + 1 => i <= loc[c].level
      BY <1>1 DEF Prios
    <2> QED
      BY <1>1, <1>3, <2>1, <2>2, StillPassed DEF PassTrue
  <1>4. loc[c].level + 1 \in 0 .. 3
    BY <1>1 DEF Prios
  <1> QED
    BY <1>1, <1>2, <1>3, <1>4, SeekPass

\* A visit touches the queue of a tenant whose turn is still to come.
LEMMA VisitPass ==
  ASSUME Grounds, Grounds', [Next]_vars, NEW c \in Consumers, Visit(c), PassTrue(c),
         before'[c] = before[c]
  PROVE  PassTrue(c)'
  <1> USE DEF Grounds
  <1> DEFINE s == loc[c].shard
             i == loc[c].level
             u == Head(ring[s][i])
  <1>1. /\ pc[c] = "scan" /\ loc[c].visits > 0 /\ UNCHANGED <<ring, deficit, task>>
        /\ c \in Procs /\ TypeOK /\ loc[c] \in LocType
    BY DEF Visit, drrVars, Procs, TypeInv, TypeOK
  <1>2. /\ u \in Tenants /\ i \in Prios /\ s \in Shards
        /\ ring[s][i] \in Seq(Tenants) /\ ring[s][i] # <<>>
    BY <1>1, AtTheRing
  <1>3. loc' = [loc EXCEPT ![c].visits = @ - 1, ![c].then = "weigh"]
    BY DEF Visit
  <1>4. loc'[c].shard = s /\ loc'[c].level = i /\ loc'[c].visits = loc[c].visits - 1
        /\ loc'[c].then = "weigh" /\ loc[c].visits \in Nat
    BY <1>1, <1>3 DEF LocType, TypeOK
  <1>5. pc'[c] \in {"weigh", "release"}
    BY <1>1 DEF Visit, Goto, TypeOK
  <1>6. ToVisit(c) = loc[c].visits /\ ToVisit(c)' = loc[c].visits
    BY <1>1, <1>4, <1>5 DEF ToVisit, Weighing
  <1>7. Ahead(c, u, i)
    <2>1. 1 \in 1 .. ToVisit(c) /\ ring[s][i][1] = u
      BY <1>1, <1>2, <1>4, <1>6
    <2> QED
      BY <2>1 DEF Ahead
  <1>8. \A z \in Tenants, j \in Prios : z # u \/ j # i => queue'[z][j] = queue[z][j]
    <2>1. queue \in [Tenants -> [Prios -> SUBSET DOMAIN task]]
      BY <1>1 DEF TypeOK, SharedOK
    <2>2. \E q : queue' = [queue EXCEPT ![u][i] = q]
      BY Zenon DEF Visit
    <2> HIDE DEF u, i
    <2> QED
      BY <1>2, <2>1, <2>2
  <1> HIDE DEF u
  <1> SUFFICES ASSUME NEW z \in Tenants, NEW j \in Prios, ShardOf(z) = s
               PROVE  /\ before'[c][z][j] <= deficit'[z][j]
                      /\ j <= i /\ ~Ahead(c, z, j)' /\ ~Popped(c, z, j)' =>
                           PassedOver(c, z, j)'
    BY <1>4 DEF PassTrue
  <1>9. Ahead(c, z, j)' <=> Ahead(c, z, j)
    BY <1>1, <1>4, <1>6 DEF Ahead
  <1>10. ~Popped(c, z, j)
    BY <1>1 DEF Popped
  <1> QED
    BY <1>1, <1>7, <1>8, <1>9, <1>10, StillPassed DEF PassTrue

LEMMA OneBefore ==
  ASSUME NEW n \in Nat, NEW k \in 1 .. n + 1, k # 1
  PROVE  k - 1 \in 1 .. n /\ k - 1 + 1 = k
  OBVIOUS

\* The elements of a turned ring, or of one that lost its front, are shifted.
LEMMA ShiftedSeq ==
  ASSUME NEW S, NEW s \in Seq(S), s # <<>>, NEW new \in {Tail(s), Append(Tail(s), Head(s))},
         NEW n \in Nat, n < Len(s)
  PROVE  \A k \in 1 .. n : k + 1 \in 1 .. n + 1 /\ new[k] = s[k + 1]
  <1>1. Tail(s) \in Seq(S) /\ Len(Tail(s)) = Len(s) - 1 /\ Head(s) \in S
    BY SeqOps
  <1>2. \A k \in 1 .. n : Tail(s)[k] = s[k + 1]
    OBVIOUS
  <1>3. ASSUME NEW k \in 1 .. n
        PROVE  Append(Tail(s), Head(s))[k] = Tail(s)[k]
    <2>1. k \in 1 .. Len(Tail(s))
      BY <1>1
    <2> QED
      BY <1>1, <2>1
  <1> QED
    BY <1>2, <1>3

\* The tenant that was weighed is out of work, could not pay, or has been popped.
LEMMA WeighPass ==
  ASSUME Grounds, Grounds', [Next]_vars, NEW c \in Consumers, Weigh(c), PassTrue(c),
         before \in [Consumers -> [Tenants -> [Prios -> Int]]], before'[c] = before[c]
  PROVE  PassTrue(c)'
  <1> USE DEF Grounds
  <1> DEFINE s == loc[c].shard
             i == loc[c].level
             u == Head(ring[s][i])
             q == queue[u][i]
             x == Front(q)
             rest == Tail(ring[s][i])
  <1>1. pc[c] = "weigh" /\ task' = task /\ c \in Procs /\ TypeOK /\ loc[c] \in LocType
    BY DEF Weigh, Procs, TypeInv, TypeOK
  <1>2. /\ u \in Tenants /\ i \in Prios /\ s \in Shards /\ s = ShardOf(u)
        /\ ring[s][i] \in Seq(Tenants) /\ ring[s][i] # <<>>
    BY <1>1, AtTheRing
  <1>3. /\ queue \in [Tenants -> [Prios -> SUBSET DOMAIN task]]
        /\ deficit \in [Tenants -> [Prios -> Int]]
        /\ ring \in [Shards -> [Prios -> Seq(Tenants)]]
        /\ Quantum[u] \in Nat
    BY <1>1, <1>2, SchedulerAssumption DEF TypeOK, SharedOK
  <1>4. loc[c].visits \in Nat /\ loc[c].visits < Len(ring[s][i])
    BY <1>1 DEF TypeInv, VisitsCovered, Weighing, LocType
  <1>5. q \in SUBSET Nat /\ q \subseteq DOMAIN task
    <2> HIDE DEF u, i
    <2> QED
      BY <1>2, EntryFacts
  <1>6. q # {} => x \in q
    BY <1>5, FrontInQueue
  <1>7. /\ \/ pc'[c] = "scan" /\ q = {} /\ UNCHANGED <<queue, deficit, loc>>
           \/ /\ pc'[c] = "scan" /\ q # {} /\ ~Affordable(u, i) /\ UNCHANGED <<queue, loc>>
              /\ deficit' = [deficit EXCEPT ![u][i] = @ + Quantum[u]]
           \/ /\ pc'[c] = "commit" /\ q # {} /\ UNCHANGED deficit
              /\ queue' = [queue EXCEPT ![u][i] = @ \ {x}]
              /\ loc' = [loc EXCEPT ![c].item = x]
        /\ \E new \in {rest, Append(rest, u)} : ring' = [ring EXCEPT ![s][i] = new]
    <2>1. CASE q = {}
      BY <1>1, <2>1 DEF Weigh, Goto, TypeOK
    <2>2. CASE q # {} /\ ~Affordable(u, i)
      BY <1>1, <2>2 DEF Weigh, Goto, TypeOK
    <2>3. CASE q # {} /\ Affordable(u, i)
      BY <1>1, <2>3 DEF Weigh, Goto, TypeOK
    <2> QED
      BY <2>1, <2>2, <2>3
  <1> HIDE DEF q, x, u
  <1>8. loc'[c].shard = s /\ loc'[c].level = i /\ loc'[c].visits = loc[c].visits
        /\ (pc'[c] = "commit" => loc'[c].item = x)
    <2>1. CASE UNCHANGED loc /\ pc'[c] # "commit"
      BY <2>1
    <2>2. CASE loc' = [loc EXCEPT ![c].item = x]
      <3>1. loc'[c] = [loc[c] EXCEPT !.item = x]
        BY <1>1, <2>2 DEF TypeOK
      <3> QED
        BY <1>1, <3>1 DEF LocType
    <2> QED
      BY <1>7, <2>1, <2>2
  <1>9. ToVisit(c) = loc[c].visits + 1 /\ ToVisit(c)' = loc[c].visits
    BY <1>1, <1>7, <1>8 DEF ToVisit, Weighing
  <1>10. ASSUME NEW z \in Tenants, NEW j \in Prios, Ahead(c, z, j), z # u
         PROVE  Ahead(c, z, j)'
    <2>1. PICK k \in 1 .. loc[c].visits + 1 : ring[s][i][k] = z
      BY <1>9, <1>10 DEF Ahead
    <2>2. k # 1
      BY <1>2, <1>10, <2>1 DEF u
    <2>3. PICK new \in {rest, Append(rest, u)} : ring' = [ring EXCEPT ![s][i] = new]
      BY <1>7
    <2>4. ring'[s][i] = new
      BY <1>2, <1>3, <2>3
    <2>5. k - 1 \in 1 .. loc[c].visits /\ k - 1 + 1 = k
      BY <1>4, <2>1, <2>2, OneBefore
    <2>6. new[k - 1] = ring[s][i][k - 1 + 1]
      BY <1>2, <1>4, <2>3, <2>5, ShiftedSeq DEF u
    <2>7. ring'[s][i][k - 1] = z
      BY <2>1, <2>4, <2>5, <2>6
    <2> QED
      BY <1>8, <1>9, <1>10, <2>5, <2>7 DEF Ahead
  <1> SUFFICES ASSUME NEW z \in Tenants, NEW j \in Prios, ShardOf(z) = s
               PROVE  /\ before'[c][z][j] <= deficit'[z][j]
                      /\ j <= i /\ ~Ahead(c, z, j)' /\ ~Popped(c, z, j)' =>
                           PassedOver(c, z, j)'
    BY <1>8 DEF PassTrue
  <1>11. deficit[z][j] \in Int /\ before[c][z][j] \in Int /\ before[c][z][j] <= deficit[z][j]
    BY <1>3 DEF PassTrue
  <1>12. before'[c][z][j] <= deficit'[z][j]
    <2>1. deficit'[z][j] = deficit[z][j] \/ deficit'[z][j] = deficit[z][j] + Quantum[u]
      <3>1. deficit' = deficit \/ deficit' = [deficit EXCEPT ![u][i] = @ + Quantum[u]]
        BY <1>7
      <3> HIDE DEF i
      <3>2. CASE z = u /\ j = i
        BY <1>2, <1>3, <3>1, <3>2
      <3>3. CASE z # u \/ j # i
        <4> DEFINE e == deficit[u][i] + Quantum[u]
        <4>1. deficit' = deficit \/ deficit' = [deficit EXCEPT ![u][i] = e]
          BY <3>1
        <4> HIDE DEF e
        <4>2. deficit'[z][j] = deficit[z][j]
          BY <1>2, <1>3, <3>3, <4>1, DeepUpdate
        <4> QED
          BY <4>2
      <3> QED
        BY <3>2, <3>3
    <2> QED
      BY <1>3, <1>11, <2>1
  <1>13. CASE z # u \/ j # i
    <2>1. queue'[z][j] = queue[z][j]
      <3> DEFINE e == queue[u][i] \ {x}
      <3>1. queue' = queue \/ queue' = [queue EXCEPT ![u][i] = e]
        BY <1>7
      <3> HIDE DEF e, i
      <3> QED
        BY <1>2, <1>3, <1>13, <3>1, DeepUpdate
    <2>2. ~Popped(c, z, j)
      BY <1>1 DEF Popped
    <2>3. j # i => ~Ahead(c, z, j)
      BY DEF Ahead
    <2> QED
      BY <1>10, <1>12, <1>13, <2>1, <2>2, <2>3, StillPassed DEF PassTrue
  <1>14. CASE z = u /\ j = i
    <2>1. CASE q = {}
      <3>1. queue'[z][j] = {}
        BY <1>7, <1>14, <2>1 DEF q
      <3> QED
        BY <1>12, <3>1 DEF PassedOver
    <2>2. CASE q # {} /\ ~Affordable(u, i) /\ UNCHANGED queue
      <3>1. task[x].cost \in Nat
        BY <1>5, <1>6, <2>2, EntryFacts, RequestType
      <3>2. before[c][z][j] < task[x].cost
        BY <1>11, <1>14, <2>2, <3>1 DEF Affordable, q, x
      <3>3. PassedOver(c, z, j)'
        BY <1>1, <1>14, <2>2, <3>2 DEF PassedOver, q, x
      <3> QED
        BY <1>12, <3>3
    <2>3. CASE q # {} /\ pc'[c] = "commit"
      <3>1. task[x].tenant = u
        BY <1>2, <1>6, <2>3 DEF LedgerInv, QueuesSorted, q
      <3>2. Popped(c, z, j)'
        BY <1>1, <1>8, <1>14, <2>3, <3>1 DEF Popped
      <3> QED
        BY <1>12, <3>2
    <2> QED
      BY <1>7, <2>1, <2>2, <2>3
  <1> QED
    BY <1>13, <1>14

\* A popped task that was cancelled is the older one its tenant's queue waits for.
LEMMA CommitPass ==
  ASSUME Grounds, Grounds', [Next]_vars, NEW c \in Consumers, Commit(c), PassTrue(c),
         EntriesKnown, InPass(c)', before'[c] = before[c]
  PROVE  PassTrue(c)'
  <1> USE DEF Grounds
  <1> DEFINE x == loc[c].item
  <1>1. /\ pc[c] = "commit" /\ UNCHANGED <<task, queue, ring>> /\ c \in Procs /\ TypeOK
        /\ loc[c] \in LocType
    BY DEF Commit, Procs, TypeInv, TypeOK
  <1>2. /\ x \notin Live({x}) \ cancelled
        /\ pc'[c] = "scan" /\ loc' = [loc EXCEPT ![c].item = 0]
        /\ UNCHANGED <<pending, fate, deficit>>
    <2>1. CASE x \in Live({x}) \ cancelled
      <3>1. pc'[c] = "release" /\ loc' = [loc EXCEPT ![c].then = "leave"]
        BY <1>1, <2>1 DEF Commit, Goto, TypeOK
      <3>2. loc'[c].then = "leave"
        BY <1>1, <3>1 DEF LocType, TypeOK
      <3> QED
        BY <3>1, <3>2 DEF InPass, Weighing
    <2>2. CASE x \notin Live({x}) \ cancelled
      BY <1>1, <2>2 DEF Commit, Goto, TypeOK
    <2> QED
      BY <2>1, <2>2
  <1>3. loc'[c].shard = loc[c].shard /\ loc'[c].level = loc[c].level /\ loc'[c].visits = loc[c].visits
    BY <1>1, <1>2 DEF LocType, TypeOK
  <1>4. ToVisit(c)' = ToVisit(c)
    BY <1>1, <1>2, <1>3 DEF ToVisit, Weighing
  <1>5. /\ x \in DOMAIN task /\ x \in Ids /\ x \notin pending /\ fate[x] = "cancelled"
    <2>1. x \in DOMAIN task
      BY <1>1 DEF TypeInv, LocalsSet
    <2>2. x \notin pending
      BY <1>2 DEF Live, LedgerInv, MarkersSettled
    <2>3. x \in Held
      BY <1>1 DEF Held, PoppedTasks
    <2> QED
      BY <2>1, <2>2, <2>3, HandlesInIds DEF EntriesKnown
  <1>6. PoppedBy(c)
    BY <1>1 DEF LedgerInv, PoppedFirst
  <1>7. PICK t \in Tenants, i \in Prios :
          task[x].tenant = t /\ task[x].prio = i /\ loc[c].level = i
    BY <1>5, <1>6, EntryFacts DEF PoppedBy
  <1>8. PassedOver(c, t, i)'
    <2>1. SUFFICES ASSUME queue[t][i] # {}
                   PROVE  CancelledAhead(Front(queue[t][i]))
      BY <1>1, <1>2 DEF PassedOver, CancelledAhead
    <2>2. queue[t][i] \in SUBSET Nat
      BY <1>7, EntryFacts
    <2>3. PICK y \in queue[t][i] : y = Front(queue[t][i])
      BY <2>1, <2>2, FrontInQueue
    <2>4. x < y
      BY <1>6, <1>7, <2>3 DEF PoppedBy
    <2>5. task[y].tenant = t /\ task[y].prio = i
      BY <1>7, <2>3 DEF LedgerInv, QueuesSorted
    <2> QED
      BY <1>5, <1>7, <2>3, <2>4, <2>5 DEF CancelledAhead
  <1> HIDE DEF x
  <1> SUFFICES ASSUME NEW z \in Tenants, NEW j \in Prios, ShardOf(z) = loc[c].shard
               PROVE  /\ before'[c][z][j] <= deficit'[z][j]
                      /\ j <= loc[c].level /\ ~Ahead(c, z, j)' => PassedOver(c, z, j)'
    BY <1>3 DEF PassTrue
  <1>9. Ahead(c, z, j)' <=> Ahead(c, z, j)
    BY <1>1, <1>3, <1>4 DEF Ahead
  <1>10. Popped(c, z, j) => z = t /\ j = i
    BY <1>7 DEF Popped, x
  <1> QED
    BY <1>1, <1>2, <1>8, <1>9, <1>10, StillPassed DEF PassTrue

-----------------------------------------------------------------------------
(* The invariant and what follows from it. *)

LEMMA BeforeType ==
  ASSUME TypeInv, PassInv, PassNext
  PROVE  before' \in [Consumers -> [Tenants -> [Prios -> Int]]]
  <1>1. /\ deficit \in [Tenants -> [Prios -> Int]] /\ NoDeficits \in [Tenants -> [Prios -> Int]]
        /\ before \in [Consumers -> [Tenants -> [Prios -> Int]]]
    BY DEF TypeInv, TypeOK, SharedOK, NoDeficits, PassInv
  <1> QED
    BY <1>1 DEF PassNext

\* A thread's own steps within a pass.
LEMMA OwnPass ==
  ASSUME Grounds, Grounds', ReachInv, PassInv, PassNext, NEW c \in Consumers, Acts(c),
         InPass(c)'
  PROVE  PassTrue(c)'
  <1> USE DEF Grounds
  <1>1. /\ [Next]_vars /\ c \in Procs /\ c \notin Producers /\ TypeOK
        /\ c \notin Cancellers /\ c \notin Closers
    BY SchedulerAssumption DEF PassNext, Procs, TypeInv
  <1>2. /\ pc[c] = "grab" => before'[c] = deficit
        /\ pc[c] # "grab" => before'[c] = before[c]
    BY DEF PassNext
  <1>3. InPass(c) => PassTrue(c)
    BY DEF PassInv
  <1>4. CASE LockForDequeue(c)
    BY <1>2, <1>4, LockPass DEF LockForDequeue
  <1>5. CASE NextLevel(c)
    BY <1>1, <1>2, <1>3, <1>5, NextPass DEF NextLevel, InPass
  <1>6. CASE Visit(c)
    BY <1>1, <1>2, <1>3, <1>6, VisitPass DEF Visit, InPass
  <1>7. CASE Weigh(c)
    BY <1>1, <1>2, <1>3, <1>7, WeighPass DEF Weigh, InPass, Weighing, PassInv
  <1>8. CASE Commit(c)
    BY <1>1, <1>2, <1>3, <1>8, CommitPass DEF Commit, InPass, PassInv
  <1>9. CASE Release(c) \/ NotifyAll(c)
    <2>1. /\ pc[c] \in {"release", "notify"}
          /\ loc[c].then \in {"idle", "admit", "reserve", "weigh", "leave"}
      BY <1>1, <1>9, LocFields DEF TypeInv, Release, NotifyAll, LocType, TypeOK
    <2>2. \/ pc'[c] = "notify" /\ loc'[c] = loc[c]
          \/ pc'[c] = loc[c].then /\ loc'[c] = loc[c]
          \/ pc'[c] = "idle"
      BY <1>1, <1>9 DEF Release, NotifyAll, Return, Goto, TypeOK
    <2>3. loc'[c] = loc[c] /\ loc[c].then = "weigh" /\ pc'[c] \in {"notify", "weigh"}
      BY <2>1, <2>2 DEF InPass, Weighing
    <2>4. InPass(c) /\ Weighing(c) /\ Weighing(c)' /\ pc[c] # "grab"
      BY <2>1, <2>3 DEF InPass, Weighing
    <2>5. ShardSame(loc[c].shard)
      BY <1>9 DEF Release, NotifyAll, entryVars, drrVars, ShardSame
    <2>6. pc'[c] = "commit" <=> pc[c] = "commit"
      BY <2>1, <2>3
    <2> QED
      BY <1>1, <1>2, <1>3, <2>3, <2>4, <2>5, <2>6, PassGoesOn
  <1>10. CASE Polls(c) /\ ~LockForDequeue(c) /\ ~NextLevel(c)
    <2>1. pc'[c] \notin {"scan", "commit", "weigh", "release", "notify"}
      BY <1>1, <1>10
         DEF Polls, Observe, EnterTryDequeue, PopShard, LeaveShard, PutBackShard, NoTask,
             Doze, WakeUp, ReturnClosed, ReturnOrGoOn, Return, Goto, TypeOK
    <2> QED
      BY <2>1 DEF InPass, Weighing
  <1> QED
    BY <1>1, <1>4, <1>5, <1>6, <1>7, <1>8, <1>9, <1>10 DEF Acts, Serves, Polls

LEMMA PassStep ==
  ASSUME Grounds, Grounds', ReachInv, PassInv, [PassNext]_passVars
  PROVE  PassInv'
  <1> USE DEF Grounds
  <1>1. CASE UNCHANGED passVars
    BY <1>1 DEF passVars, vars, slotVars, entryVars, drrVars, PassInv, EntriesKnown, Held,
         Entries, PoppedTasks, InPass, Weighing, PassTrue, Ahead, ToVisit, Popped,
         PassedOver, CancelledAhead
  <1>2. CASE PassNext
    <2>1. Next /\ before' \in [Consumers -> [Tenants -> [Prios -> Int]]]
      BY <1>2, BeforeType DEF PassNext
    <2>2. ASSUME NEW c \in Consumers, InPass(c), InPass(c)',
                 pc'[c] = "commit" <=> pc[c] = "commit", Weighing(c)' <=> Weighing(c),
                 loc'[c] = loc[c], ShardSame(loc[c].shard)
          PROVE  PassTrue(c)'
      <3>1. before'[c] = before[c]
        BY <1>2, <2>2 DEF PassNext, InPass, Weighing
      <3> QED
        BY <2>1, <2>2, <3>1, PassGoesOn DEF PassInv
    <2>3. CASE Expire
      <3>1. UNCHANGED <<task, pending, queue, fate, pc, loc, deficit, ring>>
        BY <2>3 DEF Expire, slotVars, drrVars
      <3>2. EntriesKnown'
        BY <3>1 DEF PassInv, EntriesKnown, Held, Entries, PoppedTasks
      <3>3. ASSUME NEW c \in Consumers, InPass(c)'
            PROVE  PassTrue(c)'
        BY <2>2, <3>1, <3>3 DEF InPass, Weighing, ShardSame
      <3> QED
        BY <2>1, <3>2, <3>3 DEF PassInv
    <2>4. ASSUME NEW p, Acts(p)
          PROVE  PassInv'
      <3>1. p \in Procs /\ \E l, v : Moves(p, l, v)
        BY <2>4, ActsMoves
      <3>2. \A q \in Procs \ {p} : pc'[q] = pc[q] /\ loc'[q] = loc[q]
        BY <3>1, PhaseSets DEF TypeInv
      <3>3. EntriesKnown'
        BY <2>1, <2>4, KnownStays DEF PassInv
      <3>4. ASSUME NEW c \in Consumers, InPass(c)', c # p
            PROVE  PassTrue(c)'
        <4>1. c \in Procs /\ pc'[c] = pc[c] /\ loc'[c] = loc[c]
          BY <3>2, <3>4 DEF Procs
        <4>2. InPass(c) /\ (Weighing(c)' <=> Weighing(c))
          BY <3>4, <4>1 DEF InPass, Weighing
        <4>3. loc[c].shard \in Shards /\ lock[loc[c].shard] = c /\ c # NoProc
          BY <4>1, <4>2, PassLocks, SchedulerAssumption
        <4>4. ShardSame(loc[c].shard)
          BY <2>4, <3>4, <4>3, OnlyUnderLock
        <4> QED
          BY <2>2, <3>4, <4>1, <4>2, <4>4
      <3>5. ASSUME NEW c \in Consumers, InPass(c)', c = p
            PROVE  PassTrue(c)'
        BY <1>2, <2>4, <3>5, OwnPass
      <3> QED
        BY <2>1, <3>3, <3>4, <3>5 DEF PassInv
    <2> QED
      BY <2>1, <2>3, <2>4, NextCases DEF Acts
  <1> QED
    BY <1>1, <1>2

LEMMA InitPass == PassInit => PassInv
  <1> SUFFICES ASSUME PassInit
               PROVE  PassInv
    OBVIOUS
  <1>1. \A c \in Consumers : pc[c] = "idle"
    BY DEF PassInit, Init, Procs
  <1>2. Held = {}
    BY <1>1 DEF Held, PoppedTasks, Entries, PassInit, Init
  <1>3. before \in [Consumers -> [Tenants -> [Prios -> Int]]]
    BY DEF PassInit, NoDeficits
  <1> QED
    BY <1>1, <1>2, <1>3 DEF PassInv, EntriesKnown, InPass, Weighing

\* A scheduler with the history is a scheduler.
LEMMA PassesSchedule == PassSpec => Spec
  <1>1. PassInit => Init
    BY DEF PassInit
  <1>2. [PassNext]_passVars => [Next]_vars
    BY DEF PassNext, passVars
  <1> QED
    BY <1>1, <1>2, PTL DEF PassSpec, Spec

\* Throughout a pass, whatever the other threads do, every tenant the pass has
\* been past could not pay when it began, or has a dead or a cancelled front.
THEOREM PassInvariant == PassSpec => []PassInv
  <1>1. Grounds /\ Grounds' /\ ReachInv /\ PassInv /\ [PassNext]_passVars => PassInv'
    BY PassStep
  <1> QED
    BY <1>1, InitPass, PassesSchedule, TypeCorrect, SlotInvariant, LedgerInvariant,
       ReachInvariant, PTL DEF PassSpec, Grounds

\* No task is handed out past a queued one of higher priority in its shard that
\* its tenant could pay for when the pass began (try_dequeue's loop over the
\* levels, 537-635).
THEOREM PriorityAmongPayers == PassSpec => []PayersFirst
  <1>1. TypeInv /\ PassInv => PayersFirst
    <2> SUFFICES ASSUME TypeInv, PassInv, NEW c \in Consumers, pc[c] = "commit",
                        NEW t \in Tenants, NEW i \in Prios,
                        ShardOf(t) = loc[c].shard, i < loc[c].level
                 PROVE  PassedOver(c, t, i)
      BY DEF PayersFirst
    <2>1. PassTrue(c) /\ loc[c].level \in Prios
      BY PassLocks DEF PassInv, InPass
    <2>2. i <= loc[c].level /\ i # loc[c].level
      BY <2>1 DEF Prios
    <2>3. ~Ahead(c, t, i) /\ ~Popped(c, t, i)
      BY <2>2 DEF Ahead, Popped
    <2> QED
      BY <2>1, <2>2, <2>3 DEF PassTrue
  <1> QED
    BY <1>1, PassInvariant, PassesSchedule, TypeCorrect, PTL
=============================================================================
