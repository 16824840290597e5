-------------------------- MODULE SchedulerLedger --------------------------
(***************************************************************************)
(* Scheduler loses no task and implements TaskLedger, for any number of    *)
(* threads, tenants, shards and tasks.  A step either keeps every queue or *)
(* only takes entries away (Remains), or it is a push; the lemmas of each  *)
(* action say which, and which step of the ledger it is.                   *)
(***************************************************************************)
EXTENDS SchedulerProofs

Grounds == TypeInv /\ SlotInv /\ LedgerInv

\* A finite set of handles that is not empty has a greatest element, so the back
\* of a queue is in it and is its newest entry.
LEMMA BackInQueue ==
  ASSUME NEW q \in SUBSET Nat, q # {}, NEW n \in Nat, \A x \in q : x <= n
  PROVE  Back(q) \in q /\ \A y \in q : y <= Back(q)
  <1> DEFINE gaps == {g \in 0 .. n : n - g \in q}
  <1>1. \A x \in q : n - x \in gaps
    BY Z3
  <1>2. gaps \in SUBSET Nat /\ gaps # {}
    <2>1. \A g \in gaps : g \in Nat
      OBVIOUS
    <2>2. gaps # {}
      BY <1>1
    <2> HIDE DEF gaps
    <2> QED
      BY <2>1, <2>2
  <1>3. PICK g \in gaps : \A h \in gaps : g <= h
    BY <1>2, LeastElement
  <1>4. n - g \in q /\ \A y \in q : y <= n - g
    <2>1. \A y \in q : g <= n - y
      BY <1>1, <1>3
    <2> QED
      BY <2>1
  <1> QED
    BY <1>4 DEF Back

\* Facts about the entries that every proof below needs.
LEMMA EntryFacts ==
  ASSUME TypeInv
  PROVE  /\ Len(task) \in Nat /\ DOMAIN task = 1 .. Len(task)
         /\ pending \subseteq DOMAIN task /\ IsFiniteSet(DOMAIN task)
         /\ \A x \in DOMAIN task : task[x] \in Requests
                                   /\ task[x].tenant \in Tenants /\ task[x].prio \in Prios
         /\ \A t \in Tenants, i \in Prios : queue[t][i] \subseteq DOMAIN task
  <1>1. SharedOK
    BY DEF TypeInv, TypeOK
  <1>2. Len(task) \in Nat /\ DOMAIN task = 1 .. Len(task)
    BY <1>1 DEF SharedOK
  <1>3. IsFiniteSet(DOMAIN task)
    BY <1>2, FS_Interval
  <1>4. \A x \in DOMAIN task : task[x] \in Requests
    BY <1>1 DEF SharedOK
  <1>5. \A t \in Tenants, i \in Prios : queue[t][i] \subseteq DOMAIN task
    BY <1>1 DEF SharedOK
  <1> QED
    BY <1>1, <1>2, <1>3, <1>4, <1>5, RequestType DEF SharedOK

\* The number of a tenant's entries, and how it changes when entries go.
LEMMA TotalLenType ==
  ASSUME TypeInv, NEW t \in Tenants
  PROVE  /\ \A i \in Prios : IsFiniteSet(queue[t][i]) /\ Cardinality(queue[t][i]) \in Nat
         /\ TotalLen(t) \in Nat
  <1>1. \A i \in Prios : IsFiniteSet(queue[t][i])
    BY EntryFacts, FS_Subset
  <1>2. \A i \in Prios : Cardinality(queue[t][i]) \in Nat
    BY <1>1, FS_CardinalityType
  <1> QED
    BY <1>1, <1>2 DEF TotalLen, Prios

LEMMA Shrinks ==
  ASSUME TypeInv, NEW t \in Tenants,
         \A i \in Prios : queue'[t][i] \subseteq queue[t][i]
  PROVE  TotalLen(t)' \in Nat /\ TotalLen(t)' <= TotalLen(t)
  <1>1. \A i \in Prios : /\ Cardinality(queue'[t][i]) \in Nat
                         /\ Cardinality(queue[t][i]) \in Nat
                         /\ Cardinality(queue'[t][i]) <= Cardinality(queue[t][i])
    BY TotalLenType, FS_Subset, FS_CardinalityType
  <1> QED
    BY <1>1 DEF TotalLen, Prios

LEMMA RoomLeft ==
  ASSUME TypeInv, LedgerInv, NEW t \in Tenants,
         \A i \in Prios : queue'[t][i] \subseteq queue[t][i]
  PROVE  /\ TotalLen(t)' <= MaxPerTenant
         /\ TenantFull(t)' => TenantFull(t)
  <1>1. MaxPerTenant \in Nat
    BY SchedulerAssumption
  <1>2. TotalLen(t) <= MaxPerTenant /\ TotalLen(t) \in Nat
    BY TotalLenType DEF LedgerInv, TenantsBounded
  <1> QED
    BY <1>1, <1>2, Shrinks DEF TenantFull

-----------------------------------------------------------------------------
(* What a process owns. *)

\* Two processes inside one shard are the same process.
LEMMA Alone ==
  ASSUME TypeInv, NEW p \in Procs, NEW q \in Procs, Locking(p), Locking(q),
         HeldShard(p) = HeldShard(q)
  PROVE  p = q
  BY DEF TypeInv, MutualExclusion

\* The live tasks of the tenant whose shard a process has locked are in their
\* queues, unless it has popped one itself.
LEMMA LockedLive ==
  ASSUME TypeInv, LedgerInv, NEW p \in Procs, Locking(p),
         pc[p] # "commit", NEW x \in pending,
         HeldShard(p) = ShardOf(task[x].tenant)
  PROVE  x \in queue[task[x].tenant][task[x].prio]
  <1>1. SUFFICES ASSUME x \notin queue[task[x].tenant][task[x].prio]
                 PROVE  FALSE
    OBVIOUS
  <1>2. PICK c \in Consumers : pc[c] = "commit" /\ loc[c].item = x
    BY <1>1 DEF LedgerInv, NothingLost
  <1>3. c \in Procs /\ c \notin Producers
    BY SchedulerAssumption DEF Procs
  <1>4. Locking(c) /\ HeldShard(c) = loc[c].shard
    BY <1>2, <1>3 DEF Locking, HeldShard
  <1>5. loc[c].shard = ShardOf(task[x].tenant)
    BY <1>2 DEF LedgerInv, PoppedFirst, PoppedBy
  <1>6. p = c
    BY <1>3, <1>4, <1>5, Alone
  <1> QED
    BY <1>2, <1>6

-----------------------------------------------------------------------------
(* Steps that add no entry. *)

\* A step of p that gives out no handle and adds no entry keeps the invariant
\* when the tasks it takes out of the pending set get a fate, the live entries it
\* takes out of a queue are settled or popped by it, and p itself is where the
\* invariant allows it to be.
LEMMA Remains ==
  ASSUME Grounds, TypeInv', NEW p \in Procs,
         \A q \in Procs \ {p} : pc'[q] = pc[q] /\ loc'[q] = loc[q],
         task' = task, pending' \subseteq pending,
         \A x \in Ids : \/ fate'[x] = fate[x] /\ (x \in pending => x \in pending')
                        \/ fate'[x] # "queued" /\ x \notin pending',
         \A t \in Tenants, i \in Prios : queue'[t][i] \subseteq queue[t][i],
         \A x \in pending' :
           x \in queue[task[x].tenant][task[x].prio] =>
             \/ x \in queue'[task[x].tenant][task[x].prio]
             \/ p \in Consumers /\ pc'[p] = "commit" /\ loc'[p].item = x,
         p \in Consumers /\ pc[p] = "commit" => loc[p].item \notin pending',
         cancelled' \cap pending' = {},
         pc'[p] = "mark" => loc'[p].item \notin pending',
         RingsLocal', HandlesLeft',
         p \in Consumers /\ pc'[p] = "commit" => PoppedBy(p)',
         p \in Producers /\ Admitted(p)' => ~TenantFull(loc[p].job.tenant)'
  PROVE  LedgerInv'
  <1> USE DEF Grounds
  <1>1. FatesTrue'
    BY DEF LedgerInv, FatesTrue
  <1>2. QueuesSorted'
    BY DEF LedgerInv, QueuesSorted
  <1>3. MarkersSettled'
    <2>1. ASSUME NEW q \in Procs, pc'[q] = "mark"
          PROVE  loc'[q].item \notin pending'
      BY <2>1 DEF LedgerInv, MarkersSettled
    <2> QED
      BY <2>1 DEF MarkersSettled
  <1>4. NothingLost'
    <2> SUFFICES ASSUME NEW x \in pending'
                 PROVE  \/ x \in queue'[task[x].tenant][task[x].prio]
                        \/ \E c \in Consumers : pc'[c] = "commit" /\ loc'[c].item = x
      BY DEF NothingLost
    <2>1. CASE x \in queue[task[x].tenant][task[x].prio]
      BY <2>1
    <2>2. CASE x \notin queue[task[x].tenant][task[x].prio]
      <3>1. PICK c \in Consumers : pc[c] = "commit" /\ loc[c].item = x
        BY <2>2 DEF LedgerInv, NothingLost
      <3>2. c # p /\ c \in Procs
        BY <3>1 DEF Procs
      <3> QED
        BY <3>1, <3>2
    <2> QED
      BY <2>1, <2>2
  <1>5. PoppedFirst'
    <2> SUFFICES ASSUME NEW c \in Consumers, pc'[c] = "commit", c # p
                 PROVE  PoppedBy(c)'
      BY DEF PoppedFirst
    <2>1. pc[c] = "commit" /\ loc'[c] = loc[c] /\ c \in Procs
      BY DEF Procs
    <2>2. loc[c].item \in DOMAIN task
      BY <2>1 DEF TypeInv, LocalsSet
    <2>3. task[loc[c].item].tenant \in Tenants /\ task[loc[c].item].prio \in Prios
      BY <2>2, EntryFacts
    <2>4. PoppedBy(c)
      BY <2>1 DEF LedgerInv, PoppedFirst
    <2> QED
      BY <2>1, <2>3, <2>4 DEF PoppedBy
  <1>6. TenantsBounded'
    <2>1. \A t \in Tenants : TotalLen(t)' <= MaxPerTenant
      BY RoomLeft
    <2>2. ASSUME NEW q \in Producers, Admitted(q)'
          PROVE  ~TenantFull(loc[q].job.tenant)'
      <3> SUFFICES ASSUME q # p
                   PROVE  ~TenantFull(loc[q].job.tenant)'
        BY <2>2
      <3>1. q \in Procs /\ pc'[q] = pc[q] /\ loc'[q] = loc[q]
        BY <2>2 DEF Procs
      <3>2. loc[q].job.tenant \in Tenants
        BY <3>1, LocFields DEF TypeInv
      <3>3. Admitted(q)
        BY <2>2, <3>1 DEF Admitted
      <3>4. ~TenantFull(loc[q].job.tenant)
        BY <3>3 DEF LedgerInv, TenantsBounded
      <3> DEFINE t == loc[q].job.tenant
      <3>5. TenantFull(t)' => TenantFull(t)
        BY <3>2, <3>1, RoomLeft DEF TenantFull, TotalLen
      <3> QED
        BY <3>1, <3>4, <3>5 DEF TenantFull, TotalLen
    <2> QED
      BY <2>1, <2>2 DEF TenantsBounded
  <1> QED
    BY <1>1, <1>2, <1>3, <1>4, <1>5, <1>6 DEF LedgerInv

\* Two sets of producers whose members are told by pc and the locals.
LEMMA PhaseSets ==
  ASSUME TypeOK, TypeOK', NEW p \in Procs, NEW l, NEW v, Moves(p, l, v)
  PROVE  /\ pc'[p] = l /\ loc'[p] = v
         /\ \A q \in Procs \ {p} : pc'[q] = pc[q] /\ loc'[q] = loc[q]
         /\ \A q \in Producers \ {p} : q \in Inside' <=> q \in Inside
         /\ \A q \in Producers \ {p} : q \in Coming' <=> q \in Coming
  <1>1. /\ pc'[p] = l /\ loc'[p] = v
        /\ \A q \in Procs \ {p} : pc'[q] = pc[q] /\ loc'[q] = loc[q]
    BY DEF TypeOK, Moves
  <1>2. \A q \in Producers : q \in Procs
    BY DEF Procs
  <1>3. \A q \in Producers \ {p} : q \in Inside' <=> q \in Inside
    BY <1>1, <1>2 DEF Inside
  <1> QED
    BY <1>1, <1>2, <1>3 DEF Coming

\* A call that ends, or goes on, leaves a handle for each of the others.
LEMMA StillComing ==
  ASSUME TypeInv, LedgerInv, TypeInv', NEW p \in Procs, NEW l, NEW v,
         Moves(p, l, v), task' = task, p \in Coming' => p \in Coming
  PROVE  HandlesLeft'
  <1>1. \A q \in Producers \ {p} : q \in Coming' <=> q \in Coming
    BY PhaseSets DEF TypeInv
  <1>2. Coming' \subseteq Coming
    BY <1>1 DEF Coming
  <1>3. Coming \subseteq Procs /\ IsFiniteSet(Procs)
    BY SchedulerAssumption DEF Coming, Procs
  <1>4. IsFiniteSet(Coming) /\ IsFiniteSet(Coming')
    BY <1>2, <1>3, FS_Subset
  <1>5. Cardinality(Coming') <= Cardinality(Coming)
        /\ Cardinality(Coming') \in Nat /\ Cardinality(Coming) \in Nat
    BY <1>2, <1>4, FS_Subset, FS_CardinalityType
  <1>6. Len(task) \in Nat /\ MaxTasks \in Nat
    BY EntryFacts, SchedulerAssumption
  <1> QED
    BY <1>5, <1>6 DEF LedgerInv, HandlesLeft

\* A step that leaves the tasks, the queues and the rings alone.
LEMMA Quiet ==
  ASSUME Grounds, TypeInv', NEW p \in Procs, NEW l, NEW v, Moves(p, l, v),
         UNCHANGED <<task, pending, queue, fate, ring>>,
         cancelled' \cap pending = {},
         l \notin {"commit", "mark"}, pc[p] # "commit",
         p \in Producers /\ Admitted(p)' =>
           v.job = loc[p].job /\ ~TenantFull(loc[p].job.tenant),
         HandlesLeft'
  PROVE  LedgerInv'
  <1> USE DEF Grounds
  <1>1. /\ pc'[p] = l /\ loc'[p] = v
        /\ \A q \in Procs \ {p} : pc'[q] = pc[q] /\ loc'[q] = loc[q]
    BY PhaseSets DEF TypeInv
  <1>2. RingsLocal'
    BY DEF LedgerInv, RingsLocal
  <1>3. p \in Producers /\ Admitted(p)' => ~TenantFull(loc[p].job.tenant)'
    BY <1>1 DEF TenantFull, TotalLen
  <1>4. \A t \in Tenants, i \in Prios : queue'[t][i] \subseteq queue[t][i]
    OBVIOUS
  <1>5. \A x \in pending' : x \in queue[task[x].tenant][task[x].prio] =>
                              x \in queue'[task[x].tenant][task[x].prio]
    OBVIOUS
  <1> QED
    BY <1>1, <1>2, <1>3, <1>4, <1>5, Remains

\* enqueue starts: the bound on the tasks leaves the new call a handle.
LEMMA EnqueueKeeps ==
  ASSUME Grounds, TypeInv', NEW p \in Producers, Enqueue(p)
  PROVE  LedgerInv'
  <1> USE DEF Grounds
  <1>1. PICK r \in Requests : BeginAttempt(p, r)
    BY DEF Enqueue
  <1> DEFINE v == [Fresh EXCEPT !.job = r]
             busy == {q \in Producers : pc[q] # "idle"}
  <1>2. /\ p \in Procs /\ Moves(p, "lock", v) /\ pc[p] = "idle"
        /\ UNCHANGED <<task, pending, cancelled, queue, fate, ring>>
    BY <1>1 DEF Enqueue, BeginAttempt, Procs, Goto, Moves, slotVars, entryVars, drrVars
  <1> HIDE DEF v
  <1>3. ~Admitted(p)'
    BY <1>2, PhaseSets DEF TypeInv, Admitted
  <1>4. HandlesLeft'
    <2>1. Coming \subseteq busy
      BY DEF Coming, Inside
    <2>2. Coming' \subseteq Coming \cup {p}
      <3>1. \A q \in Producers \ {p} : q \in Coming' <=> q \in Coming
        BY <1>2, PhaseSets DEF TypeInv
      <3> QED
        BY <3>1 DEF Coming
    <2>3. busy \subseteq Procs /\ IsFiniteSet(Procs)
      BY SchedulerAssumption DEF Procs
    <2>4. /\ IsFiniteSet(busy) /\ Cardinality(busy) \in Nat
          /\ IsFiniteSet(busy \cup {p}) /\ p \notin busy
          /\ Cardinality(busy \cup {p}) = Cardinality(busy) + 1
      BY <1>2, <2>3, FS_Subset, FS_CardinalityType, FS_AddElement
    <2>5. /\ Cardinality(Coming') <= Cardinality(busy) + 1
          /\ Cardinality(Coming') \in Nat
      BY <2>1, <2>2, <2>4, FS_Subset, FS_CardinalityType
    <2>6. Len(task) + Cardinality(busy) < MaxTasks
      BY DEF Enqueue
    <2>7. Len(task) \in Nat /\ MaxTasks \in Nat
      BY EntryFacts, SchedulerAssumption
    <2> HIDE DEF busy
    <2> QED
      BY <1>2, <2>4, <2>5, <2>6, <2>7 DEF HandlesLeft
  <1>5. cancelled' \cap pending = {}
    BY <1>2 DEF LedgerInv, MarkersSettled
  <1> QED
    BY <1>2, <1>3, <1>4, <1>5, Quiet

\* A call that waits again, is refused or goes on before it has a slot.
LEMMA CallKeeps ==
  ASSUME Grounds, TypeInv', NEW p \in Producers,
         RetryEnqueue(p) \/ Admit(p) \/ Activate(p) \/ Publish(p)
  PROVE  LedgerInv'
  <1> USE DEF Grounds
  <1>1. /\ p \in Procs /\ TypeOK
        /\ UNCHANGED <<task, pending, cancelled, queue, fate, ring>>
        /\ pc[p] \in {"wait", "admit", "activate", "publish"}
    BY DEF TypeInv, Procs, RetryEnqueue, BeginAttempt, Admit, Activate, Publish,
           slotVars, entryVars, drrVars
  <1>2. pc[p] \in {"activate", "publish"} => loc[p].then = "idle"
    BY <1>1 DEF TypeInv, LocalsSet
  <1>3. \/ pc[p] \in {"wait", "admit"} /\ \E l \in {"lock", "idle", "wait"} : \E v : Moves(p, l, v)
        \/ Moves(p, "reserve", loc[p]) /\ pc[p] = "admit" /\ ~TenantFull(loc[p].job.tenant)
        \/ Moves(p, "idle", Fresh)
        \/ /\ pc[p] \in {"activate", "publish"}
           /\ Moves(p, "publish", loc[p]) \/ Moves(p, "notify", loc[p])
    BY <1>1, Stay DEF RetryEnqueue, BeginAttempt, Admit, Refuse, Activate, Publish,
                      AfterActivation, Goto, Moves
  <1>4. cancelled' \cap pending = {}
    BY <1>1 DEF LedgerInv, MarkersSettled
  <1>5. CASE pc[p] \in {"wait", "admit"} /\ \E l \in {"lock", "idle", "wait"} : \E v : Moves(p, l, v)
    <2>1. PICK l, v : l \in {"lock", "idle", "wait"} /\ Moves(p, l, v)
      BY <1>5
    <2>2. ~Admitted(p)' /\ p \in Coming
      BY <1>1, <1>5, <2>1, PhaseSets DEF TypeInv, Admitted, Coming, Inside
    <2>3. HandlesLeft'
      BY <1>1, <2>1, <2>2, StillComing
    <2> QED
      BY <1>1, <1>4, <2>1, <2>2, <2>3, Quiet
  <1>6. CASE Moves(p, "reserve", loc[p]) /\ pc[p] = "admit" /\ ~TenantFull(loc[p].job.tenant)
    <2>1. p \in Coming
      BY <1>6 DEF Coming, Inside
    <2>2. HandlesLeft'
      BY <1>1, <1>6, <2>1, StillComing
    <2> QED
      BY <1>1, <1>4, <1>6, <2>2, Quiet
  <1>7. CASE \/ Moves(p, "idle", Fresh)
             \/ pc[p] \in {"activate", "publish"}
                  /\ (Moves(p, "publish", loc[p]) \/ Moves(p, "notify", loc[p]))
    <2>1. PICK l \in {"idle", "publish", "notify"}, v \in {Fresh, loc[p]} :
            Moves(p, l, v) /\ (l # "idle" => v.then = "idle")
      BY <1>2, <1>7
    <2>2. ~Admitted(p)' /\ p \notin Coming'
      BY <1>1, <2>1, PhaseSets DEF TypeInv, Admitted, Coming, Inside
    <2>3. HandlesLeft'
      BY <1>1, <2>1, <2>2, StillComing
    <2> QED
      BY <1>1, <1>4, <2>1, <2>2, <2>3, Quiet
  <1> QED
    BY <1>3, <1>5, <1>6, <1>7

\* The release of slots and the notification, wherever the process goes next.
LEMMA SettleKeeps ==
  ASSUME Grounds, TypeInv', NEW p \in Procs, Release(p) \/ NotifyAll(p)
  PROVE  LedgerInv'
  <1> USE DEF Grounds
  <1>1. /\ TypeOK /\ UNCHANGED <<task, pending, cancelled, queue, fate, ring>>
        /\ pc[p] \in {"release", "notify"}
    BY DEF TypeInv, Release, NotifyAll, slotVars, entryVars, drrVars
  <1>2. \/ Moves(p, "notify", loc[p]) /\ pc[p] = "release"
        \/ Moves(p, loc[p].then, loc[p]) /\ loc[p].then # "idle"
        \/ Moves(p, "idle", Fresh)
    BY <1>1, Stay DEF Release, NotifyAll
  <1>3. loc[p].then \in {"idle", "admit", "reserve", "weigh", "leave"}
    BY <1>1 DEF TypeOK, LocType
  <1>4. PICK l, v : /\ Moves(p, l, v) /\ l \notin {"commit", "mark"}
                    /\ \/ v = loc[p] /\ l = "notify"
                       \/ v = loc[p] /\ l = loc[p].then /\ loc[p].then # "idle"
                       \/ l = "idle"
    BY <1>2, <1>3
  <1>5. pc'[p] = l /\ loc'[p] = v
    BY <1>4, PhaseSets DEF TypeInv
  <1>6. Admitted(p)' => Admitted(p) /\ v.job = loc[p].job
    BY <1>1, <1>3, <1>4, <1>5 DEF Admitted
  <1>7. p \in Coming' => p \in Coming
    BY <1>1, <1>3, <1>4, <1>5 DEF Coming, Inside
  <1>8. HandlesLeft'
    BY <1>1, <1>4, <1>7, StillComing
  <1>9. cancelled' \cap pending = {}
    BY <1>1 DEF LedgerInv, MarkersSettled
  <1>10. p \in Producers /\ Admitted(p)' => ~TenantFull(loc[p].job.tenant)
    BY <1>6 DEF LedgerInv, TenantsBounded
  <1> QED
    BY <1>1, <1>4, <1>6, <1>8, <1>9, <1>10, Quiet

\* A consumer between two visits, or outside the shards.
Polls(c) ==
  \/ Observe(c) \/ EnterTryDequeue(c) \/ PopShard(c) \/ LockForDequeue(c)
  \/ NextLevel(c) \/ LeaveShard(c) \/ PutBackShard(c) \/ NoTask(c)
  \/ Doze(c) \/ WakeUp(c)

LEMMA PollMoves ==
  ASSUME TypeOK, NEW c \in Consumers, Polls(c)
  PROVE  \E l \in Labels \ {"commit", "mark"} : \E v : Moves(c, l, v)
  <1>1. c \in Procs
    BY DEF Procs
  <1>2. \E l \in Labels \ {"commit", "mark"} : pc' = [pc EXCEPT ![c] = l]
    BY DEF Polls, Observe, EnterTryDequeue, ReturnClosed, PopShard, LockForDequeue,
           NextLevel, SeekLevel, LeaveShard, PutBackShard, ReturnOrGoOn, Return,
           NoTask, Doze, WakeUp, Goto, Labels
  <1>3. \E v : loc' = [loc EXCEPT ![c] = v]
    <2>1. loc' = loc => loc' = [loc EXCEPT ![c] = loc[c]]
      BY <1>1, Stay
    <2>2. CASE Observe(c) \/ WakeUp(c)
      BY <2>1, <2>2 DEF Observe, WakeUp
    <2>3. CASE EnterTryDequeue(c)
      BY <2>3, Zenon DEF EnterTryDequeue, ReturnClosed
    <2>4. CASE PopShard(c)
      BY <2>1, <2>4, Zenon DEF PopShard
    <2>5. CASE LockForDequeue(c) \/ NextLevel(c)
      BY <2>1, <2>5, Zenon DEF LockForDequeue, NextLevel, SeekLevel
    <2>6. CASE LeaveShard(c) \/ PutBackShard(c)
      BY <2>1, <2>6, Zenon DEF LeaveShard, PutBackShard, ReturnOrGoOn, Return
    <2>7. CASE NoTask(c) \/ Doze(c)
      BY <2>1, <2>7, Zenon DEF NoTask, ReturnClosed, Return, Doze
    <2> QED
      BY <2>2, <2>3, <2>4, <2>5, <2>6, <2>7 DEF Polls
  <1> QED
    BY <1>2, <1>3 DEF Moves

LEMMA PollKeeps ==
  ASSUME Grounds, TypeInv', NEW c \in Consumers, Polls(c)
  PROVE  LedgerInv'
  <1> USE DEF Grounds
  <1>1. /\ c \in Procs /\ c \notin Producers /\ TypeOK
        /\ UNCHANGED <<task, pending, cancelled, queue, fate, ring>>
        /\ pc[c] # "commit"
    BY SchedulerAssumption
       DEF TypeInv, Procs, Polls, Observe, EnterTryDequeue, PopShard, LockForDequeue,
           NextLevel, LeaveShard, PutBackShard, NoTask, Doze, WakeUp, slotVars,
           entryVars, drrVars
  <1>2. PICK l, v : l \in Labels \ {"commit", "mark"} /\ Moves(c, l, v)
    BY <1>1, PollMoves
  <1>3. c \notin Coming'
    BY <1>1 DEF Coming
  <1>4. HandlesLeft'
    BY <1>1, <1>2, <1>3, StillComing
  <1>5. cancelled' \cap pending = {}
    BY <1>1 DEF LedgerInv, MarkersSettled
  <1> QED
    BY <1>1, <1>2, <1>4, <1>5, Quiet

\* cancel takes the task out of the pending set, then marks its entry.
LEMMA CancelKeeps ==
  ASSUME Grounds, TypeInv', NEW k \in Cancellers, CancelTake(k) \/ CancelMark(k)
  PROVE  LedgerInv'
  <1> USE DEF Grounds
  <1>1. /\ k \in Procs /\ k \notin Producers /\ k \notin Consumers /\ TypeOK
        /\ UNCHANGED <<task, queue, ring>>
    BY SchedulerAssumption
       DEF TypeInv, Procs, CancelTake, CancelMark, slotVars, entryVars, drrVars
  <1>2. RingsLocal'
    BY <1>1 DEF LedgerInv, RingsLocal
  <1>3. k \notin Coming'
    BY <1>1 DEF Coming
  <1>4. CASE CancelTake(k)
    <2>1. PICK x \in pending : /\ pending' = pending \ {x}
                               /\ fate' = [fate EXCEPT ![x] = "cancelled"]
                               /\ loc' = [loc EXCEPT ![k].item = x]
      BY <1>4 DEF CancelTake
    <2> DEFINE v == [loc[k] EXCEPT !.item = x]
    <2>2. Moves(k, "mark", v) /\ cancelled' = cancelled /\ v.item = x
      <3>1. loc[k] \in LocType
        BY <1>1 DEF TypeOK
      <3>2. v.item = x
        BY <3>1 DEF LocType
      <3> QED
        BY <1>4, <2>1, <3>2 DEF CancelTake, Goto, Moves
    <2> HIDE DEF v
    <2>3. /\ pc'[k] = "mark" /\ loc'[k] = v
          /\ \A q \in Procs \ {k} : pc'[q] = pc[q] /\ loc'[q] = loc[q]
      BY <1>1, <2>2, PhaseSets DEF TypeInv
    <2>4. HandlesLeft'
      BY <1>1, <1>3, <2>2, StillComing
    <2>5. cancelled' \cap pending' = {} /\ pending' \subseteq pending
      BY <2>1, <2>2 DEF LedgerInv, MarkersSettled
    <2>6. \A y \in Ids : \/ fate'[y] = fate[y] /\ (y \in pending => y \in pending')
                         \/ fate'[y] # "queued" /\ y \notin pending'
      <3>1. fate \in [Ids -> Fates]
        BY DEF TypeInv, TypeOK, SharedOK
      <3> QED
        BY <2>1, <3>1
    <2>7. loc'[k].item \notin pending'
      BY <2>1, <2>2, <2>3
    <2>8. \A y \in pending' : y \in queue[task[y].tenant][task[y].prio] =>
                                y \in queue'[task[y].tenant][task[y].prio]
      BY <1>1
    <2>9. \A t \in Tenants, i \in Prios : queue'[t][i] \subseteq queue[t][i]
      BY <1>1
    <2> QED
      BY <1>1, <1>2, <2>3, <2>4, <2>5, <2>6, <2>7, <2>8, <2>9, Remains
  <1>5. CASE CancelMark(k)
    <2>1. /\ Moves(k, "release", loc[k]) /\ pc[k] = "mark"
          /\ UNCHANGED <<pending, fate>> /\ cancelled' = cancelled \cup {loc[k].item}
      BY <1>1, <1>5, Stay DEF CancelMark, entryVars
    <2>2. cancelled' \cap pending = {}
      BY <1>1, <2>1 DEF LedgerInv, MarkersSettled
    <2>3. HandlesLeft'
      BY <1>1, <1>3, <2>1, StillComing
    <2> QED
      BY <1>1, <2>1, <2>2, <2>3, Quiet
  <1> QED
    BY <1>4, <1>5

\* close_*, the passing of time and a stuttering step.
LEMMA CloseKeeps ==
  ASSUME Grounds, TypeInv', NEW k \in Closers, Close(k)
  PROVE  LedgerInv'
  <1> USE DEF Grounds
  <1>1. /\ k \in Procs /\ k \notin Producers /\ TypeOK
        /\ UNCHANGED <<task, pending, cancelled, queue, fate, ring>> /\ pc[k] = "idle"
    BY SchedulerAssumption DEF TypeInv, Procs, Close, slotVars, entryVars, drrVars
  <1>2. Moves(k, "notify", loc[k])
    BY <1>1, Stay DEF Close
  <1>3. k \notin Coming'
    BY <1>1 DEF Coming
  <1>4. HandlesLeft'
    BY <1>1, <1>2, <1>3, StillComing
  <1>5. cancelled' \cap pending = {}
    BY <1>1 DEF LedgerInv, MarkersSettled
  <1> QED
    BY <1>1, <1>2, <1>4, <1>5, Quiet

LEMMA StutterKeeps ==
  ASSUME LedgerInv,
         UNCHANGED <<task, pending, cancelled, queue, fate, ring, pc, loc>>
  PROVE  LedgerInv'
  <1>1. NothingLost' /\ FatesTrue' /\ QueuesSorted' /\ RingsLocal' /\ MarkersSettled'
    BY DEF LedgerInv, NothingLost, FatesTrue, QueuesSorted, RingsLocal, MarkersSettled
  <1>2. PoppedFirst'
    BY DEF LedgerInv, PoppedFirst, PoppedBy
  <1>3. HandlesLeft'
    BY DEF LedgerInv, HandlesLeft, Coming, Inside
  <1>4. TenantsBounded'
    BY DEF LedgerInv, TenantsBounded, Admitted, TenantFull, TotalLen
  <1> QED
    BY <1>1, <1>2, <1>3, <1>4 DEF LedgerInv

-----------------------------------------------------------------------------
(* Steps that take entries away. *)

\* What a purge does to the entries: only dead ones go, and the live among those
\* are overdue and expire.
LEMMA PurgeEntries ==
  ASSUME Grounds, NEW p \in Procs, NEW t \in Tenants, NEW budget, Purge(p, t, budget)
  PROVE  \E S \in SUBSET pending :
           /\ S \subseteq late /\ pending' = pending \ S
           /\ fate' = [x \in Ids |-> IF x \in S THEN "expired" ELSE fate[x]]
           /\ freed' = [freed EXCEPT ![p] = S]
           /\ cancelled' \subseteq cancelled
           /\ \A z \in Tenants, i \in Prios : queue'[z][i] \subseteq queue[z][i]
           /\ \A x \in pending' : x \in queue[task[x].tenant][task[x].prio] =>
                                    x \in queue'[task[x].tenant][task[x].prio]
  <1> USE DEF Grounds
  <1> DEFINE gone == [i \in Prios |-> Purgeable(queue[t][i], budget)]
             removed == UNION {gone[i] : i \in Prios}
             S == Live(removed)
  <1>1. queue \in [Tenants -> [Prios -> SUBSET DOMAIN task]]
    BY DEF TypeInv, TypeOK, SharedOK
  <1>2. /\ pending' = pending \ S /\ freed' = [freed EXCEPT ![p] = S]
        /\ fate' = [x \in Ids |-> IF x \in S THEN "expired" ELSE fate[x]]
        /\ cancelled' \subseteq cancelled
    BY DEF Purge
  <1>3. queue' = [queue EXCEPT ![t] = [i \in Prios |-> queue[t][i] \ gone[i]]]
    BY <1>1 DEF Purge
  <1>4. ASSUME NEW q \in SUBSET Nat
        PROVE  Purgeable(q, budget) \subseteq Dead
    <2>1. \A x \in q : x <= x
      OBVIOUS
    <2> QED
      BY <2>1 DEF Purgeable, DeadPrefix, SideScan
  <1>5. removed \subseteq Dead
    <2>1. \A i \in Prios : queue[t][i] \in SUBSET Nat
      BY <1>1, EntryFacts
    <2>2. \A i \in Prios : gone[i] \subseteq Dead
      BY <1>4, <2>1
    <2> HIDE DEF gone
    <2> QED
      BY <2>2
  <1>6. S \in SUBSET pending /\ S \subseteq late
    BY <1>5 DEF Live, Dead, LedgerInv, MarkersSettled
  <1>7. \A i \in Prios : \A x \in gone[i] : x \in pending => x \in S
    <2> HIDE DEF gone
    <2> QED
      BY DEF Live
  <1> HIDE DEF gone, S
  <1>8. \A z \in Tenants, i \in Prios :
          queue'[z][i] = IF z = t THEN queue[t][i] \ gone[i] ELSE queue[z][i]
    BY <1>1, <1>3
  <1>9. ASSUME NEW x \in pending', x \in queue[task[x].tenant][task[x].prio]
        PROVE  x \in queue'[task[x].tenant][task[x].prio]
    <2>1. task[x].tenant \in Tenants /\ task[x].prio \in Prios /\ x \in pending /\ x \notin S
      BY <1>2, EntryFacts
    <2> QED
      <3>1. PICK z \in Tenants, j \in Prios : z = task[x].tenant /\ j = task[x].prio
        BY <2>1
      <3>2. x \in queue[z][j] /\ x \notin gone[j]
        BY <1>7, <1>9, <2>1, <3>1
      <3>3. queue'[z][j] = IF z = t THEN queue[t][j] \ gone[j] ELSE queue[z][j]
        BY <1>8
      <3>4. x \in queue'[z][j]
        BY <3>2, <3>3
      <3> QED
        BY <3>1, <3>4
  <1> QED
    BY <1>2, <1>6, <1>8, <1>9

\* A step that settles the tasks S, and whose process does not commit, keeps the
\* invariant.
LEMMA SettlesEntries ==
  ASSUME Grounds, TypeInv', NEW p \in Procs, NEW l, NEW v, Moves(p, l, v),
         NEW S \in SUBSET pending, pending' = pending \ S,
         \A x \in Ids : IF x \in S THEN fate'[x] # "queued" ELSE fate'[x] = fate[x],
         cancelled' \subseteq cancelled,
         \A z \in Tenants, i \in Prios : queue'[z][i] \subseteq queue[z][i],
         \A x \in pending' : x \in queue[task[x].tenant][task[x].prio] =>
                                  x \in queue'[task[x].tenant][task[x].prio],
         task' = task, RingsLocal', p \in Coming' => p \in Coming,
         l \notin {"commit", "mark"},
         p \in Consumers /\ pc[p] = "commit" => loc[p].item \notin pending',
         p \in Producers /\ Admitted(p)' => ~TenantFull(loc[p].job.tenant)'
  PROVE  LedgerInv'
  <1> USE DEF Grounds
  <1>1. /\ pc'[p] = l /\ loc'[p] = v
        /\ \A q \in Procs \ {p} : pc'[q] = pc[q] /\ loc'[q] = loc[q]
    BY PhaseSets DEF TypeInv
  <1>2. HandlesLeft'
    BY StillComing
  <1>3. cancelled' \cap pending' = {} /\ pending' \subseteq pending
    BY DEF LedgerInv, MarkersSettled
  <1>4. \A x \in Ids : \/ fate'[x] = fate[x] /\ (x \in pending => x \in pending')
                       \/ fate'[x] # "queued" /\ x \notin pending'
    OBVIOUS
  <1> QED
    BY <1>1, <1>2, <1>3, <1>4, Remains

\* enqueue has locked the shard and purged its tenant.
LEMMA LockKeeps ==
  ASSUME Grounds, TypeInv', NEW p \in Producers, LockForEnqueue(p)
  PROVE  LedgerInv'
  <1> USE DEF Grounds
  <1> DEFINE t == loc[p].job.tenant
  <1>1. /\ p \in Procs /\ p \notin Consumers /\ TypeOK /\ t \in Tenants
        /\ task' = task /\ ring' = ring /\ pc[p] = "lock"
    BY SchedulerAssumption, LocFields DEF TypeInv, Procs, LockForEnqueue
  <1>2. RingsLocal'
    BY <1>1 DEF LedgerInv, RingsLocal
  <1>3. p \in Coming
    BY <1>1 DEF Coming
  <1>4. CASE mode # "open"
    <2>1. /\ Moves(p, "idle", Fresh)
          /\ UNCHANGED <<pending, cancelled, queue, fate>>
      BY <1>1, <1>4, Stay DEF LockForEnqueue, slotVars
    <2>2. ~Admitted(p)'
      BY <1>1, <2>1, PhaseSets DEF TypeInv, Admitted
    <2>3. HandlesLeft'
      BY <1>1, <1>3, <2>1, StillComing
    <2>4. cancelled' \cap pending = {}
      BY <2>1 DEF LedgerInv, MarkersSettled
    <2> QED
      BY <1>1, <2>1, <2>2, <2>3, <2>4, Quiet
  <1>5. CASE mode = "open"
    <2> DEFINE w == [loc[p] EXCEPT !.wasIdle = ~HasWork(JobShard(p)), !.then = "admit",
                                   !.purged = (PurgeReason(t) = "full")]
    <2>1. w.then = "admit"
      <3>1. loc[p] \in LocType
        BY <1>1 DEF TypeOK
      <3> QED
        BY <3>1 DEF LocType
    <2>2. loc' = [loc EXCEPT ![p] = w] /\ Goto(p, IF freed'[p] = {} THEN "admit" ELSE "release")
      BY <1>5 DEF LockForEnqueue
    <2>3. PICK l \in {"admit", "release"} : Moves(p, l, w)
      BY <2>2 DEF Goto, Moves
    <2> HIDE DEF w
    <2>4. ~Admitted(p)'
      BY <1>1, <2>1, <2>3, PhaseSets DEF TypeInv, Admitted
    <2>5. CASE PurgeReason(t) = "none"
      <3>1. UNCHANGED <<pending, cancelled, queue, fate>>
        BY <1>5, <2>5 DEF LockForEnqueue
      <3>2. HandlesLeft'
        BY <1>1, <1>3, <2>3, StillComing
      <3>3. cancelled' \cap pending = {}
        BY <3>1 DEF LedgerInv, MarkersSettled
      <3> QED
        BY <1>1, <2>3, <2>4, <3>1, <3>2, <3>3, Quiet
    <2>6. CASE PurgeReason(t) # "none"
      <3>1. Purge(p, t, Budget(PurgeReason(t)))
        BY <1>5, <2>6 DEF LockForEnqueue
      <3>2. PICK S \in SUBSET pending :
              /\ pending' = pending \ S
              /\ fate' = [x \in Ids |-> IF x \in S THEN "expired" ELSE fate[x]]
              /\ cancelled' \subseteq cancelled
              /\ \A z \in Tenants, i \in Prios : queue'[z][i] \subseteq queue[z][i]
              /\ \A x \in pending' : x \in queue[task[x].tenant][task[x].prio] =>
                                       x \in queue'[task[x].tenant][task[x].prio]
        BY <1>1, <3>1, PurgeEntries
      <3>3. \A x \in Ids : IF x \in S THEN fate'[x] # "queued" ELSE fate'[x] = fate[x]
        BY <3>2
      <3> QED
        BY <1>1, <1>2, <1>3, <2>3, <2>4, <3>2, <3>3, SettlesEntries
    <2> QED
      BY <2>5, <2>6
  <1> QED
    BY <1>4, <1>5

\* The entry that drop_from_tenant drops is the oldest or the newest of its queue.
LEMMA VictimEntry ==
  ASSUME Grounds, NEW t \in Tenants, NEW prio \in Prios, DropLevels(t, prio) # {}
  PROVE  \E i \in Prios :
           /\ Victim(t, prio) \in queue[t][i]
           /\ \/ \A y \in queue[t][i] : Victim(t, prio) <= y
              \/ \A y \in queue[t][i] : y <= Victim(t, prio)
  <1> USE DEF Grounds
  <1> DEFINE L == DropLevels(t, prio)
             i == Back(L)
  <1>1. prio \in Nat /\ L \in SUBSET Nat /\ \A k \in L : k <= 2 /\ k \in Prios
    BY DEF DropLevels, Prios
  <1>2. i \in L
    BY <1>1, BackInQueue
  <1>3. i \in Prios /\ queue[t][i] # {}
    BY <1>1, <1>2 DEF DropLevels
  <1>4. /\ queue[t][i] \in SUBSET Nat /\ Len(task) \in Nat
        /\ \A y \in queue[t][i] : y <= Len(task)
    BY <1>3, EntryFacts
  <1> HIDE DEF i
  <1>5. /\ Back(queue[t][i]) \in queue[t][i] /\ \A y \in queue[t][i] : y <= Back(queue[t][i])
        /\ Front(queue[t][i]) \in queue[t][i] /\ \A y \in queue[t][i] : Front(queue[t][i]) <= y
    BY <1>3, <1>4, BackInQueue, FrontInQueue
  <1>6. Victim(t, prio) = IF Policy[t] = "oldest" THEN Front(queue[t][i]) ELSE Back(queue[t][i])
    BY DEF Victim, i
  <1> QED
    BY <1>3, <1>5, <1>6

\* A tenant that loses an entry has room for another.
LEMMA MakesRoom ==
  ASSUME Grounds, NEW t \in Tenants, NEW i \in Prios, NEW v \in queue[t][i],
         \A j \in Prios : queue'[t][j] = queue[t][j] \ {v}
  PROVE  ~TenantFull(t)'
  <1> USE DEF Grounds
  <1>1. ASSUME NEW j \in Prios
        PROVE  /\ Cardinality(queue[t][j]) \in Nat /\ Cardinality(queue'[t][j]) \in Nat
               /\ Cardinality(queue'[t][j]) <= Cardinality(queue[t][j])
    <2>1. IsFiniteSet(queue[t][j]) /\ queue'[t][j] \subseteq queue[t][j]
      BY TotalLenType
    <2> QED
      BY <2>1, FS_Subset, FS_CardinalityType
  <1>2. Cardinality(queue'[t][i]) = Cardinality(queue[t][i]) - 1
    <2>1. IsFiniteSet(queue[t][i]) /\ queue'[t][i] = queue[t][i] \ {v}
      BY TotalLenType
    <2> QED
      BY <2>1, FS_RemoveElement
  <1>3. TotalLen(t) <= MaxPerTenant /\ MaxPerTenant \in Nat
    BY SchedulerAssumption DEF LedgerInv, TenantsBounded
  <1>4. TotalLen(t)' < TotalLen(t) /\ TotalLen(t)' \in Nat /\ TotalLen(t) \in Nat
    BY <1>1, <1>2 DEF TotalLen, Prios
  <1> QED
    BY <1>3, <1>4 DEF TenantFull

\* Where a refused call goes.
LEMMA RefuseMoves ==
  ASSUME TypeInv, NEW p \in Procs, Refuse(p)
  PROVE  \E l \in {"idle", "wait"} : \E v : Moves(p, l, v)
  BY Stay DEF TypeInv, Refuse, Goto, Moves

\* The three ways to be admitted under a Drop policy.
LEMMA DropEffect ==
  ASSUME Grounds, NEW p \in Producers, AdmitByDropping(p)
  PROVE  LET t == loc[p].job.tenant
             x == Victim(t, loc[p].job.prio)
         IN  \/ /\ ~TenantFull(t) /\ Moves(p, "reserve", loc[p])
                /\ UNCHANGED <<pending, cancelled, queue, fate>>
             \/ /\ \E l \in {"idle", "wait"} : \E v : Moves(p, l, v)
                /\ UNCHANGED <<pending, cancelled, queue, fate>>
             \/ /\ DropLevels(t, loc[p].job.prio) # {}
                /\ \A j \in Prios : queue'[t][j] = queue[t][j] \ {x}
                /\ \A z \in Tenants \ {t} : queue'[z] = queue[z]
                /\ cancelled' = cancelled \ {x} /\ pending' = pending \ {x}
                /\ \/ /\ x \in pending /\ fate' = [fate EXCEPT ![x] = "dropped"]
                      /\ Moves(p, "push", loc[p])
                   \/ x \notin pending /\ fate' = fate /\ Moves(p, "reserve", loc[p])
  <1> USE DEF Grounds
  <1> DEFINE t == loc[p].job.tenant
             prio == loc[p].job.prio
             x == Victim(t, prio)
  <1>1. p \in Procs /\ t \in Tenants /\ TypeOK
    BY LocFields DEF TypeInv, Procs
  <1>2. CASE ~TenantFull(t) /\ SlotFree
    BY <1>1, <1>2, Stay DEF AdmitByDropping
  <1>3. CASE (TenantFull(t) \/ ~SlotFree) /\ DropLevels(t, prio) = {}
    <2>1. Refuse(p) /\ UNCHANGED <<pending, cancelled, queue, fate>>
      BY <1>3 DEF AdmitByDropping
    <2> QED
      BY <1>1, <2>1, RefuseMoves
  <1>4. CASE (TenantFull(t) \/ ~SlotFree) /\ DropLevels(t, prio) # {}
    <2>1. /\ queue' = [queue EXCEPT ![t] = [i \in Prios |-> @[i] \ {x}]]
          /\ cancelled' = cancelled \ {x}
          /\ pending' = pending \ Live({x})
          /\ IF x \in Live({x})
               THEN Goto(p, "push") /\ fate' = [fate EXCEPT ![x] = "dropped"]
               ELSE Goto(p, "reserve") /\ UNCHANGED fate
          /\ UNCHANGED loc
      BY <1>4 DEF AdmitByDropping
    <2>2. x \in Live({x}) <=> x \in pending
      BY DEF Live
    <2>3. pending' = pending \ {x}
      BY <2>1 DEF Live
    <2> HIDE DEF x
    <2>4. /\ \A j \in Prios : queue'[t][j] = queue[t][j] \ {x}
          /\ \A z \in Tenants \ {t} : queue'[z] = queue[z]
      BY <1>1, <2>1 DEF TypeOK, SharedOK
    <2>5. \/ /\ x \in pending /\ fate' = [fate EXCEPT ![x] = "dropped"]
             /\ Moves(p, "push", loc[p])
          \/ x \notin pending /\ fate' = fate /\ Moves(p, "reserve", loc[p])
      BY <1>1, <2>1, <2>2, Stay
    <2> QED
      BY <1>4, <2>1, <2>3, <2>4, <2>5 DEF x
  <1> QED
    BY <1>2, <1>3, <1>4

LEMMA DropKeeps ==
  ASSUME Grounds, TypeInv', NEW p \in Producers, AdmitByDropping(p)
  PROVE  LedgerInv'
  <1> USE DEF Grounds
  <1> DEFINE t == loc[p].job.tenant
             prio == loc[p].job.prio
             x == Victim(t, prio)
  <1>1. /\ p \in Procs /\ p \notin Consumers /\ TypeOK /\ t \in Tenants
        /\ prio \in Prios /\ task' = task /\ ring' = ring /\ pc[p] = "admit"
    BY SchedulerAssumption, LocFields DEF TypeInv, Procs, AdmitByDropping, drrVars
  <1>2. RingsLocal' /\ p \in Coming
    BY <1>1 DEF LedgerInv, RingsLocal, Coming, Inside
  <1>3. cancelled \cap pending = {}
    BY DEF LedgerInv, MarkersSettled
  <1>4. CASE /\ ~TenantFull(t) /\ Moves(p, "reserve", loc[p])
             /\ UNCHANGED <<pending, cancelled, queue, fate>>
    <2>1. HandlesLeft'
      BY <1>1, <1>2, <1>4, StillComing
    <2> QED
      BY <1>1, <1>3, <1>4, <2>1, Quiet
  <1>5. CASE /\ \E l \in {"idle", "wait"} : \E v : Moves(p, l, v)
             /\ UNCHANGED <<pending, cancelled, queue, fate>>
    <2>1. PICK l, v : l \in {"idle", "wait"} /\ Moves(p, l, v)
      BY <1>5
    <2>2. HandlesLeft' /\ ~Admitted(p)'
      BY <1>1, <1>2, <2>1, StillComing, PhaseSets DEF TypeInv, Admitted
    <2> QED
      BY <1>1, <1>3, <1>5, <2>1, <2>2, Quiet
  <1>6. CASE /\ DropLevels(t, prio) # {}
             /\ \A j \in Prios : queue'[t][j] = queue[t][j] \ {x}
             /\ \A z \in Tenants \ {t} : queue'[z] = queue[z]
             /\ cancelled' = cancelled \ {x} /\ pending' = pending \ {x}
             /\ \/ /\ x \in pending /\ fate' = [fate EXCEPT ![x] = "dropped"]
                   /\ Moves(p, "push", loc[p])
                \/ x \notin pending /\ fate' = fate /\ Moves(p, "reserve", loc[p])
    <2>1. PICK i \in Prios : x \in queue[t][i]
      BY <1>1, <1>6, VictimEntry
    <2> HIDE DEF x
    <2>2. \E z \in Tenants : z = t /\ ~TenantFull(z)'
      <3>1. PICK z \in Tenants : z = t
        BY <1>1
      <3>2. x \in queue[z][i] /\ \A j \in Prios : queue'[z][j] = queue[z][j] \ {x}
        BY <1>6, <2>1, <3>1
      <3> HIDE DEF t
      <3> QED
        BY <3>1, <3>2, MakesRoom
    <2>3. PICK l \in {"push", "reserve"} : Moves(p, l, loc[p])
      BY <1>6
    <2>4. loc'[p] = loc[p]
      BY <1>1, <2>3, PhaseSets DEF TypeInv
    <2>5. ~TenantFull(loc[p].job.tenant)'
      <3>1. PICK z \in Tenants : z = t /\ ~TenantFull(z)'
        BY <2>2
      <3> QED
        BY <2>4, <3>1 DEF TenantFull, TotalLen
    <2> DEFINE S == {x} \cap pending
    <2>6. S \in SUBSET pending /\ pending' = pending \ S /\ cancelled' \subseteq cancelled
      BY <1>6
    <2>7. \A y \in Ids : IF y \in S THEN fate'[y] # "queued" ELSE fate'[y] = fate[y]
      <3>1. fate \in [Ids -> Fates]
        BY <1>1 DEF TypeOK, SharedOK
      <3> QED
        BY <1>6, <3>1
    <2>8. \A z \in Tenants, j \in Prios : queue'[z][j] \subseteq queue[z][j]
      BY <1>6
    <2>9. ASSUME NEW y \in pending', y \in queue[task[y].tenant][task[y].prio]
          PROVE  y \in queue'[task[y].tenant][task[y].prio]
      <3>1. task[y].tenant \in Tenants /\ task[y].prio \in Prios /\ y # x
        BY <1>6, EntryFacts
      <3> QED
        BY <1>6, <2>9, <3>1
    <2> HIDE DEF S
    <2> QED
      BY <1>1, <1>2, <2>3, <2>5, <2>6, <2>7, <2>8, <2>9, SettlesEntries
  <1> QED
    BY <1>4, <1>5, <1>6, DropEffect

\* try_reserve_slot, and the purge of the tenant when the scheduler is full.
LEMMA ReserveKeeps ==
  ASSUME Grounds, TypeInv', NEW p \in Producers, Reserve(p)
  PROVE  LedgerInv'
  <1> USE DEF Grounds
  <1> DEFINE t == loc[p].job.tenant
             w == [loc[p] EXCEPT !.purged = TRUE, !.then = "reserve"]
  <1>1. /\ p \in Procs /\ p \notin Consumers /\ TypeOK /\ t \in Tenants
        /\ task' = task /\ ring' = ring /\ pc[p] = "reserve"
    BY SchedulerAssumption, LocFields DEF TypeInv, Procs, Reserve
  <1>2. RingsLocal' /\ p \in Coming
    BY <1>1 DEF LedgerInv, RingsLocal, Coming, Inside
  <1>3. ~TenantFull(t) /\ cancelled \cap pending = {}
    BY <1>1 DEF LedgerInv, TenantsBounded, Admitted, MarkersSettled
  <1>4. CASE SlotFree
    <2>1. Moves(p, "push", loc[p]) /\ UNCHANGED <<pending, cancelled, queue, fate>>
      BY <1>1, <1>4, Stay DEF Reserve
    <2>2. HandlesLeft'
      BY <1>1, <1>2, <2>1, StillComing
    <2> QED
      BY <1>1, <1>3, <2>1, <2>2, Quiet
  <1>5. CASE ~SlotFree /\ loc[p].purged
    <2>1. Refuse(p) /\ UNCHANGED <<pending, cancelled, queue, fate>>
      BY <1>5 DEF Reserve, slotVars
    <2>2. PICK l, v : l \in {"idle", "wait"} /\ Moves(p, l, v)
      BY <1>1, <2>1, RefuseMoves
    <2>3. HandlesLeft' /\ ~Admitted(p)'
      BY <1>1, <1>2, <2>2, StillComing, PhaseSets DEF TypeInv, Admitted
    <2> QED
      BY <1>1, <1>3, <2>1, <2>2, <2>3, Quiet
  <1>6. CASE ~SlotFree /\ ~loc[p].purged
    <2>1. Purge(p, t, FullBudget)
      BY <1>6 DEF Reserve
    <2>2. PICK S \in SUBSET pending :
            /\ pending' = pending \ S
            /\ fate' = [x \in Ids |-> IF x \in S THEN "expired" ELSE fate[x]]
            /\ cancelled' \subseteq cancelled
            /\ \A z \in Tenants, i \in Prios : queue'[z][i] \subseteq queue[z][i]
            /\ \A x \in pending' : x \in queue[task[x].tenant][task[x].prio] =>
                                     x \in queue'[task[x].tenant][task[x].prio]
      BY <1>1, <2>1, PurgeEntries
    <2>3. \A x \in Ids : IF x \in S THEN fate'[x] # "queued" ELSE fate'[x] = fate[x]
      BY <2>2
    <2>4. loc[p] \in LocType
      BY <1>1 DEF TypeOK
    <2>5. w.job = loc[p].job
      BY <2>4 DEF LocType
    <2>a. PICK l \in {"idle", "wait", "release"} :
            \E v : Moves(p, l, v) /\ (l = "release" => v.job = loc[p].job)
      <3>1. CASE Refuse(p)
        BY <1>1, <3>1, RefuseMoves
      <3>2. CASE ~Refuse(p)
        <4>1. Goto(p, "release") /\ loc' = [loc EXCEPT ![p] = w]
          BY <1>6, <3>2 DEF Reserve
        <4> QED
          BY <2>5, <4>1 DEF Goto, Moves
      <3> QED
        BY <3>1, <3>2
    <2>6. PICK v : l \in {"idle", "wait", "release"} /\ Moves(p, l, v)
                     /\ (l = "release" => v.job = loc[p].job)
      BY <2>a
    <2>7. ASSUME Admitted(p)'
          PROVE  ~TenantFull(loc[p].job.tenant)'
      <3>1. pc'[p] = l /\ loc'[p] = v
        BY <1>1, <2>6, PhaseSets DEF TypeInv
      <3>2. loc'[p].job = loc[p].job
        BY <2>6, <2>7, <3>1 DEF Admitted
      <3>3. PICK z \in Tenants : z = t
        BY <1>1
      <3>4. ~TenantFull(z)'
        BY <1>3, <2>2, <3>3, RoomLeft
      <3> QED
        BY <3>2, <3>3, <3>4 DEF TenantFull, TotalLen
    <2> HIDE DEF w
    <2> QED
      BY <1>1, <1>2, <2>2, <2>3, <2>6, <2>7, SettlesEntries
  <1> QED
    BY <1>4, <1>5, <1>6

-----------------------------------------------------------------------------
(* The step that adds an entry. *)

\* A push gives out the next handle, and the new entry is the newest of its queue.
LEMMA PushEffect ==
  ASSUME Grounds, NEW p \in Producers, Push(p)
  PROVE  LET r == loc[p].job
             x == Len(task) + 1
         IN  /\ x \in Ids /\ x \notin DOMAIN task /\ \A y \in DOMAIN task : y < x
             /\ r \in Requests
             /\ Len(task') = Len(task) + 1 /\ task'[x] = r
             /\ \A y \in DOMAIN task : task'[y] = task[y]
             /\ pending' = pending \cup {x} /\ fate' = [fate EXCEPT ![x] = "queued"]
             /\ \A t \in Tenants, i \in Prios :
                  queue'[t][i] = IF t = r.tenant /\ i = r.prio
                                 THEN queue[t][i] \cup {x} ELSE queue[t][i]
             /\ \E l \in {"idle", "activate", "notify"} : \E v : Moves(p, l, v) /\ v.then = "idle"
  <1> USE DEF Grounds
  <1> DEFINE r == loc[p].job
             x == Len(task) + 1
  <1>1. /\ p \in Procs /\ TypeOK /\ r \in Requests /\ r.tenant \in Tenants
        /\ r.prio \in Prios /\ pc[p] = "push" /\ loc[p] \in LocType
    BY LocFields DEF TypeInv, Procs, Push
  <1>2. /\ Len(task) \in Nat /\ DOMAIN task = 1 .. Len(task) /\ MaxTasks \in Nat
        /\ task \in Seq(Requests)
    BY EntryFacts, SchedulerAssumption DEF TypeInv, TypeOK, SharedOK
  <1>3. x \in Ids
    <2>1. p \in Coming /\ Coming \subseteq Procs /\ IsFiniteSet(Procs)
      BY <1>1, SchedulerAssumption DEF Coming, Inside, Procs
    <2>2. IsFiniteSet(Coming) /\ Cardinality(Coming) \in Nat /\ Coming # {}
      BY <2>1, FS_Subset, FS_CardinalityType
    <2>3. Cardinality(Coming) > 0
      BY <2>2, FS_EmptySet
    <2> QED
      BY <1>2, <2>2, <2>3 DEF LedgerInv, HandlesLeft, Ids
  <1>4. x \notin DOMAIN task /\ \A y \in DOMAIN task : y < x
    BY <1>2
  <1>5. /\ task' = Append(task, r) /\ pending' = pending \cup {x}
        /\ fate' = [fate EXCEPT ![x] = "queued"]
        /\ queue' = [queue EXCEPT ![r.tenant][r.prio] = @ \cup {x}]
    BY DEF Push
  <1>6. /\ Len(task') = Len(task) + 1 /\ task'[x] = r
        /\ \A y \in DOMAIN task : task'[y] = task[y]
    BY <1>1, <1>2, <1>5
  <1>7. \A t \in Tenants, i \in Prios :
          queue'[t][i] = IF t = r.tenant /\ i = r.prio
                         THEN queue[t][i] \cup {x} ELSE queue[t][i]
    <2>1. queue \in [Tenants -> [Prios -> SUBSET DOMAIN task]]
      BY <1>1 DEF TypeOK, SharedOK
    <2> HIDE DEF r, x
    <2> QED
      BY <1>1, <1>5, <2>1
  <1>8. \E l \in {"idle", "activate", "notify"} : \E v : Moves(p, l, v) /\ v.then = "idle"
    <2> DEFINE signal == MustNotify(queue[r.tenant][r.prio])
               v == [loc[p] EXCEPT !.item = x, !.signal = signal, !.then = "idle"]
    <2>1. v.then = "idle"
      BY <1>1 DEF LocType
    <2>2. CASE loc[p].wasIdle \/ signal
      <3>1. Goto(p, IF loc[p].wasIdle THEN "activate" ELSE "notify")
        BY <2>2 DEF Push
      <3>2. loc' = [loc EXCEPT ![p] = v]
        BY <1>1, <2>2 DEF Push, TypeOK
      <3> QED
        BY <2>1, <3>1, <3>2 DEF Goto, Moves
    <2>3. CASE ~(loc[p].wasIdle \/ signal)
      BY <1>1, <2>3, Stay, FreshType DEF Push
    <2> QED
      BY <2>2, <2>3
  <1> HIDE DEF x
  <1> QED
    BY <1>1, <1>3, <1>4, <1>5, <1>6, <1>7, <1>8 DEF x

LEMMA PushRings ==
  ASSUME Grounds, NEW p \in Producers, Push(p)
  PROVE  RingsLocal'
  <1> USE DEF Grounds
  <1> DEFINE t == loc[p].job.tenant
             i == loc[p].job.prio
             s == ShardOf(t)
             new == Append(ring[s][i], t)
  <1>1. /\ t \in Tenants /\ i \in Prios /\ s \in Shards /\ TypeOK
        /\ ring \in [Shards -> [Prios -> Seq(Tenants)]]
    BY LocFields, ShardOfType DEF TypeInv, TypeOK, SharedOK, Procs
  <1>2. \A z \in Shards, j \in Prios : \A k \in DOMAIN ring[z][j] :
          ShardOf(ring[z][j][k]) = z
    BY DEF LedgerInv, RingsLocal
  <1>3. ring' = ring \/ ring' = [ring EXCEPT ![s][i] = new]
    BY DEF Push
  <1>4. CASE ring' = ring
    BY <1>2, <1>4 DEF RingsLocal
  <1>5. CASE ring' = [ring EXCEPT ![s][i] = new]
    <2>1. s = ShardOf(t)
      OBVIOUS
    <2>2. \A k \in DOMAIN new : ShardOf(new[k]) = s
      <3>1. ring[s][i] \in Seq(Tenants) /\ \A k \in DOMAIN ring[s][i] : ShardOf(ring[s][i][k]) = s
        BY <1>1, <1>2
      <3> HIDE DEF t, i, s
      <3> QED
        BY <1>1, <2>1, <3>1
    <2> HIDE DEF new, s, t, i
    <2>3. \A z \in Shards, j \in Prios :
            ring'[z][j] = IF z = s /\ j = i THEN new ELSE ring[z][j]
      BY <1>1, <1>5
    <2> QED
      BY <1>2, <2>2, <2>3 DEF RingsLocal
  <1> QED
    BY <1>3, <1>4, <1>5

LEMMA PushKeeps ==
  ASSUME Grounds, TypeInv', NEW p \in Producers, Push(p)
  PROVE  LedgerInv'
  <1> USE DEF Grounds
  <1> DEFINE r == loc[p].job
             x == Len(task) + 1
  <1>1. /\ p \in Procs /\ p \notin Consumers /\ TypeOK /\ TypeOK' /\ pc[p] = "push"
        /\ r \in Requests /\ r.tenant \in Tenants /\ r.prio \in Prios
        /\ cancelled' = cancelled
    BY SchedulerAssumption, LocFields DEF TypeInv, Procs, Push
  <1>2. /\ x \in Ids /\ x \notin DOMAIN task /\ \A y \in DOMAIN task : y < x
        /\ Len(task') = Len(task) + 1 /\ task'[x] = r
        /\ \A y \in DOMAIN task : task'[y] = task[y]
        /\ pending' = pending \cup {x} /\ fate' = [fate EXCEPT ![x] = "queued"]
    BY PushEffect
  <1>3. \A t \in Tenants, i \in Prios :
          queue'[t][i] = IF t = r.tenant /\ i = r.prio
                         THEN queue[t][i] \cup {x} ELSE queue[t][i]
    BY PushEffect
  <1>4. PICK l, v : l \in {"idle", "activate", "notify"} /\ Moves(p, l, v) /\ v.then = "idle"
    BY PushEffect
  <1>5. /\ pc'[p] = l /\ loc'[p] = v
        /\ \A q \in Procs \ {p} : pc'[q] = pc[q] /\ loc'[q] = loc[q]
        /\ \A q \in Producers \ {p} : q \in Coming' <=> q \in Coming
    BY <1>1, <1>4, PhaseSets
  <1>6. p \in Coming /\ p \notin Coming' /\ ~Admitted(p)'
    BY <1>1, <1>4, <1>5 DEF Coming, Inside, Admitted
  <1>7. Locking(p) /\ HeldShard(p) = ShardOf(r.tenant)
    BY <1>1 DEF Locking, HeldShard, JobShard
  <1>8. Len(task) \in Nat
    BY EntryFacts
  <1> HIDE DEF x, r
  <1>9. NothingLost'
    <2> SUFFICES ASSUME NEW y \in pending'
                 PROVE  \/ y \in queue'[task'[y].tenant][task'[y].prio]
                        \/ \E c \in Consumers : pc'[c] = "commit" /\ loc'[c].item = y
      BY DEF NothingLost
    <2>1. CASE y = x
      BY <1>1, <1>2, <1>3, <2>1
    <2>2. CASE y \in pending
      <3>1. /\ task'[y] = task[y] /\ task[y].tenant \in Tenants /\ task[y].prio \in Prios
        BY <1>2, <2>2, EntryFacts
      <3>2. CASE y \in queue[task[y].tenant][task[y].prio]
        <4>1. PICK t \in Tenants, i \in Prios : t = task[y].tenant /\ i = task[y].prio
          BY <3>1
        <4>2. y \in queue[t][i]
          BY <3>2, <4>1
        <4>3. y \in queue'[t][i]
          BY <1>3, <4>2
        <4> QED
          BY <3>1, <4>1, <4>3
      <3>3. CASE y \notin queue[task[y].tenant][task[y].prio]
        <4>1. PICK c \in Consumers : pc[c] = "commit" /\ loc[c].item = y
          BY <2>2, <3>3 DEF LedgerInv, NothingLost
        <4> QED
          BY <1>1, <1>5, <4>1 DEF Procs
      <3> QED
        BY <3>2, <3>3
    <2> QED
      BY <1>2, <2>1, <2>2
  <1>10. FatesTrue'
    <2>1. fate \in [Ids -> Fates]
      BY <1>1 DEF TypeOK, SharedOK
    <2> QED
      BY <1>2, <2>1 DEF LedgerInv, FatesTrue
  <1>11. HandlesLeft'
    <2>1. Coming' = Coming \ {p}
      BY <1>5, <1>6 DEF Coming
    <2>2. Coming \subseteq Procs /\ IsFiniteSet(Procs)
      BY SchedulerAssumption DEF Coming, Procs
    <2>3. IsFiniteSet(Coming) /\ Cardinality(Coming) \in Nat
      BY <2>2, FS_Subset, FS_CardinalityType
    <2>4. Cardinality(Coming') = Cardinality(Coming) - 1
      BY <1>6, <2>1, <2>3, FS_RemoveElement
    <2> QED
      BY <1>2, <1>8, <2>3, <2>4, SchedulerAssumption DEF LedgerInv, HandlesLeft
  <1>12. QueuesSorted'
    <2>1. \A t \in Tenants, i \in Prios : \A y \in queue[t][i] :
            y \in DOMAIN task /\ task[y].tenant = t /\ task[y].prio = i
      BY EntryFacts DEF LedgerInv, QueuesSorted
    <2>2. ASSUME NEW t \in Tenants, NEW i \in Prios, NEW y \in queue'[t][i]
          PROVE  task'[y].tenant = t /\ task'[y].prio = i
      <3>1. CASE y \in queue[t][i]
        BY <1>2, <2>1, <3>1
      <3>2. CASE y \notin queue[t][i]
        <4>1. t = r.tenant /\ i = r.prio /\ y = x
          <5>1. queue'[t][i] = IF t = r.tenant /\ i = r.prio
                               THEN queue[t][i] \cup {x} ELSE queue[t][i]
            BY <1>3
          <5> QED
            BY <2>2, <3>2, <5>1
        <4> QED
          BY <1>2, <4>1
      <3> QED
        BY <3>1, <3>2
    <2> QED
      BY <2>2 DEF QueuesSorted
  <1>13. MarkersSettled'
    <2>1. cancelled \subseteq DOMAIN task
      BY <1>1 DEF TypeOK, SharedOK
    <2>2. ASSUME NEW k \in Procs, pc'[k] = "mark"
          PROVE  loc'[k].item \notin pending'
      <3>1. pc[k] = "mark" /\ loc'[k] = loc[k]
        BY <1>4, <1>5, <2>2
      <3>2. loc[k].item \in DOMAIN task /\ loc[k].item \notin pending
        BY <3>1 DEF TypeInv, LocalsSet, LedgerInv, MarkersSettled
      <3> QED
        BY <1>2, <3>1, <3>2
    <2> QED
      BY <1>1, <1>2, <2>1, <2>2 DEF LedgerInv, MarkersSettled
  <1>14. PoppedFirst'
    <2> SUFFICES ASSUME NEW c \in Consumers, pc'[c] = "commit"
                 PROVE  PoppedBy(c)'
      BY DEF PoppedFirst
    <2>1. pc[c] = "commit" /\ loc'[c] = loc[c]
      BY <1>1, <1>5 DEF Procs
    <2>2. loc[c].item \in DOMAIN task
      BY <2>1 DEF TypeInv, LocalsSet, Procs
    <2>3. /\ task'[loc[c].item] = task[loc[c].item] /\ loc[c].item < x
          /\ task[loc[c].item].tenant \in Tenants /\ task[loc[c].item].prio \in Prios
      BY <1>2, <2>2, EntryFacts
    <2>4. PoppedBy(c)
      BY <2>1 DEF LedgerInv, PoppedFirst
    <2> DEFINE y == loc[c].item
    <2>5. /\ loc[c].shard = ShardOf(task[y].tenant) /\ loc[c].level = task[y].prio
          /\ \A z \in queue'[task[y].tenant][task[y].prio] : y < z
      <3>1. /\ loc[c].shard = ShardOf(task[y].tenant) /\ loc[c].level = task[y].prio
            /\ \A z \in queue[task[y].tenant][task[y].prio] : y < z
        BY <2>4 DEF PoppedBy
      <3>2. PICK t \in Tenants, i \in Prios : t = task[y].tenant /\ i = task[y].prio
        BY <2>3
      <3>3. queue'[t][i] \subseteq queue[t][i] \cup {x}
        BY <1>3
      <3>4. \A z \in queue'[t][i] : y < z
        BY <2>3, <3>1, <3>2, <3>3
      <3> QED
        BY <3>1, <3>2, <3>4
    <2> QED
      BY <2>1, <2>3, <2>5 DEF PoppedBy, ShardOf
  <1>15. TenantsBounded'
    <2>1. ASSUME NEW t \in Tenants
          PROVE  TotalLen(t)' <= MaxPerTenant
      <3>1. CASE t # r.tenant
        <4>1. \A i \in Prios : queue'[t][i] = queue[t][i]
          BY <1>3, <3>1
        <4>2. TotalLen(t)' = TotalLen(t)
          BY <4>1 DEF TotalLen, Prios
        <4> QED
          BY <4>2 DEF LedgerInv, TenantsBounded
      <3>2. CASE t = r.tenant
        <4>1. \A i \in Prios : /\ IsFiniteSet(queue[t][i]) /\ x \notin queue[t][i]
                               /\ Cardinality(queue[t][i]) \in Nat
          BY <1>2, TotalLenType, EntryFacts
        <4>2. ASSUME NEW i \in Prios
              PROVE  Cardinality(queue'[t][i]) =
                       Cardinality(queue[t][i]) + (IF i = r.prio THEN 1 ELSE 0)
          <5>1. CASE i = r.prio
            <6>1. queue'[t][i] = queue[t][i] \cup {x}
              BY <1>3, <3>2, <5>1
            <6>2. IsFiniteSet(queue[t][i]) /\ x \notin queue[t][i]
              BY <4>1
            <6> QED
              BY <5>1, <6>1, <6>2, FS_AddElement
          <5>2. CASE i # r.prio
            <6>1. queue'[t][i] = queue[t][i]
              BY <1>3, <5>2
            <6> QED
              BY <4>1, <5>2, <6>1
          <5> QED
            BY <5>1, <5>2
        <4>3. TotalLen(t)' = TotalLen(t) + 1 /\ TotalLen(t) \in Nat
          BY <1>1, <4>1, <4>2 DEF TotalLen, Prios
        <4>4. ~TenantFull(t)
          BY <1>1, <3>2 DEF LedgerInv, TenantsBounded, Admitted, r
        <4> QED
          BY <4>3, <4>4, SchedulerAssumption DEF TenantFull
      <3> QED
        BY <3>1, <3>2
    <2>2. ASSUME NEW q \in Producers, Admitted(q)'
          PROVE  ~TenantFull(loc[q].job.tenant)'
      <3>1. q # p /\ q \in Procs
        BY <1>6, <2>2 DEF Procs
      <3>2. pc'[q] = pc[q] /\ loc'[q] = loc[q]
        BY <1>5, <3>1
      <3>3. Admitted(q)
        BY <2>2, <3>2 DEF Admitted
      <3>4. PICK t \in Tenants : t = loc[q].job.tenant
        BY <1>1, <3>1, LocFields
      <3>5. Locking(q) /\ HeldShard(q) = ShardOf(t)
        BY <3>3, <3>4 DEF Locking, HeldShard, JobShard, Admitted
      <3>6. t # r.tenant
        BY <1>1, <1>7, <3>1, <3>5, Alone
      <3>7. ~TenantFull(t)
        BY <3>3, <3>4 DEF LedgerInv, TenantsBounded
      <3>8. \A i \in Prios : queue'[t][i] = queue[t][i]
        BY <1>3, <3>6
      <3>9. queue'[t][0] = queue[t][0] /\ queue'[t][1] = queue[t][1]
            /\ queue'[t][2] = queue[t][2]
        BY <3>8 DEF Prios
      <3> QED
        BY <3>2, <3>4, <3>7, <3>9 DEF TenantFull, TotalLen
    <2> QED
      BY <2>1, <2>2 DEF TenantsBounded
  <1>16. RingsLocal'
    BY PushRings
  <1> QED
    BY <1>9, <1>10, <1>11, <1>12, <1>13, <1>14, <1>15, <1>16 DEF LedgerInv

-----------------------------------------------------------------------------
(* The steps of a consumer inside a shard. *)

\* Where a consumer that works on a ring is: its front is a tenant of its shard.
LEMMA AtTheRing ==
  ASSUME Grounds, NEW c \in Consumers,
         \/ pc[c] = "scan" /\ loc[c].visits > 0
         \/ pc[c] = "weigh"
  PROVE  LET s == loc[c].shard
             i == loc[c].level
             t == Head(ring[s][i])
         IN  /\ c \in Procs /\ c \notin Producers /\ s \in Shards /\ i \in Prios
             /\ ring[s][i] \in Seq(Tenants) /\ ring[s][i] # <<>>
             /\ t \in Tenants /\ s = ShardOf(t)
             /\ Locking(c) /\ HeldShard(c) = s
  <1> USE DEF Grounds
  <1> DEFINE s == loc[c].shard
             i == loc[c].level
             t == Head(ring[s][i])
  <1>1. /\ c \in Procs /\ c \notin Producers /\ s \in Shards /\ i \in Prios
        /\ loc[c].visits \in Nat /\ ring[s][i] \in Seq(Tenants)
    <2>1. c \in Procs /\ c \notin Producers
      BY SchedulerAssumption DEF Procs
    <2>2. s \in Shards /\ i \in Prios /\ loc[c].visits \in Nat
      BY <2>1, LocFields DEF TypeInv
    <2> QED
      BY <2>1, <2>2 DEF TypeInv, TypeOK, SharedOK
  <1>2. Len(ring[s][i]) > 0
    <2>1. CASE pc[c] = "scan" /\ loc[c].visits > 0
      BY <1>1, <2>1 DEF TypeInv, VisitsCovered
    <2>2. CASE pc[c] = "weigh"
      BY <1>1, <2>2 DEF TypeInv, VisitsCovered, Weighing
    <2> QED
      BY <2>1, <2>2
  <1>3. ring[s][i] # <<>> /\ t \in Tenants /\ 1 \in DOMAIN ring[s][i] /\ t = ring[s][i][1]
    BY <1>1, <1>2
  <1>4. s = ShardOf(t)
    BY <1>1, <1>3 DEF LedgerInv, RingsLocal
  <1>5. Locking(c) /\ HeldShard(c) = s
    BY <1>1 DEF Locking, HeldShard
  <1> QED
    BY <1>1, <1>3, <1>4, <1>5

\* A visit removes the dead entries at the front; the live among them are overdue.
LEMMA VisitEffect ==
  ASSUME Grounds, NEW c \in Consumers, Visit(c)
  PROVE  /\ \E l \in {"weigh", "release"} : \E v : Moves(c, l, v)
         /\ \E S \in SUBSET pending :
              /\ S \subseteq late /\ pending' = pending \ S
              /\ fate' = [x \in Ids |-> IF x \in S THEN "expired" ELSE fate[x]]
              /\ cancelled' \subseteq cancelled
              /\ \A z \in Tenants, j \in Prios : queue'[z][j] \subseteq queue[z][j]
              /\ \A x \in pending' : x \in queue[task[x].tenant][task[x].prio] =>
                                       x \in queue'[task[x].tenant][task[x].prio]
  <1> USE DEF Grounds
  <1> DEFINE s == loc[c].shard
             i == loc[c].level
             t == Head(ring[s][i])
             removed == DeadPrefix(queue[t][i])
             S == Live(removed \ cancelled)
  <1>1. /\ t \in Tenants /\ i \in Prios
        /\ queue \in [Tenants -> [Prios -> SUBSET DOMAIN task]]
    <2>1. pc[c] = "scan" /\ loc[c].visits > 0
      BY DEF Visit
    <2> QED
      BY <2>1, AtTheRing DEF TypeInv, TypeOK, SharedOK
  <1>2. /\ queue' = [queue EXCEPT ![t][i] = @ \ removed]
        /\ cancelled' = cancelled \ removed /\ pending' = pending \ S
        /\ fate' = [x \in Ids |-> IF x \in S THEN "expired" ELSE fate[x]]
    BY DEF Visit
  <1>3. S \in SUBSET pending /\ S \subseteq late
    <2>1. queue[t][i] \subseteq DOMAIN task /\ DOMAIN task \subseteq Nat
      <3>1. DOMAIN task \subseteq Nat
        BY EntryFacts
      <3> HIDE DEF s, i, t
      <3> QED
        BY <1>1, <3>1
    <2>2. \A x \in queue[t][i] : x <= x
      <3>1. \A x \in Nat : x <= x
        OBVIOUS
      <3> QED
        BY <2>1, <3>1, Zenon
    <2>3. \A x \in removed : x \in Dead
      <3> SUFFICES ASSUME NEW x \in removed PROVE x \in Dead
        OBVIOUS
      <3>1. x \in queue[t][i] /\ \A y \in queue[t][i] : y <= x => y \in Dead
        BY Zenon DEF DeadPrefix
      <3> QED
        BY <2>2, <3>1, Zenon
    <2>4. S \subseteq pending /\ \A x \in S : x \in removed /\ x \notin cancelled
      <3> HIDE DEF removed
      <3> QED
        BY DEF Live
    <2> HIDE DEF S, removed
    <2> QED
      BY <2>3, <2>4 DEF Dead
  <1>4. \A x \in removed : x \in pending => x \in S
    <2>1. cancelled \cap pending = {}
      BY DEF LedgerInv, MarkersSettled
    <2> HIDE DEF removed
    <2> QED
      BY <2>1 DEF Live
  <1>5. \E l \in {"weigh", "release"} : \E v : Moves(c, l, v)
    BY Zenon DEF Visit, Goto, Moves
  <1> HIDE DEF S, removed, t, i
  <1>6. \A z \in Tenants, j \in Prios :
          queue'[z][j] = IF z = t /\ j = i THEN queue[z][j] \ removed ELSE queue[z][j]
    BY <1>1, <1>2
  <1>7. ASSUME NEW x \in pending', x \in queue[task[x].tenant][task[x].prio]
        PROVE  x \in queue'[task[x].tenant][task[x].prio]
    <2>1. task[x].tenant \in Tenants /\ task[x].prio \in Prios /\ x \notin removed
      BY <1>2, <1>4, EntryFacts
    <2> QED
      BY <1>6, <1>7, <2>1
  <1>8. \A z \in Tenants, j \in Prios : queue'[z][j] \subseteq queue[z][j]
    BY <1>6
  <1>9. cancelled' \subseteq cancelled
    BY <1>2
  <1> QED
    BY <1>2, <1>3, <1>5, <1>7, <1>8, <1>9, Zenon

LEMMA VisitKeeps ==
  ASSUME Grounds, TypeInv', NEW c \in Consumers, Visit(c)
  PROVE  LedgerInv'
  <1> USE DEF Grounds
  <1>1. /\ c \in Procs /\ c \notin Producers /\ task' = task /\ ring' = ring
        /\ pc[c] = "scan"
    BY SchedulerAssumption DEF Procs, Visit, drrVars
  <1>2. RingsLocal' /\ c \notin Coming'
    BY <1>1 DEF LedgerInv, RingsLocal, Coming
  <1>3. PICK S \in SUBSET pending :
          /\ pending' = pending \ S
          /\ fate' = [x \in Ids |-> IF x \in S THEN "expired" ELSE fate[x]]
          /\ cancelled' \subseteq cancelled
          /\ \A z \in Tenants, j \in Prios : queue'[z][j] \subseteq queue[z][j]
          /\ \A x \in pending' : x \in queue[task[x].tenant][task[x].prio] =>
                                   x \in queue'[task[x].tenant][task[x].prio]
    BY VisitEffect
  <1>4. PICK l, v : l \in {"weigh", "release"} /\ Moves(c, l, v)
    BY VisitEffect
  <1>5. \A x \in Ids : IF x \in S THEN fate'[x] # "queued" ELSE fate'[x] = fate[x]
    BY <1>3
  <1> QED
    BY <1>1, <1>2, <1>3, <1>4, <1>5, SettlesEntries

\* What a consumer does with the front of a ring: it sends the tenant to the end,
\* takes it off the ring, or pops the front of its queue.
LEMMA WeighEffect ==
  ASSUME Grounds, NEW c \in Consumers, Weigh(c)
  PROVE  LET s == loc[c].shard
             i == loc[c].level
             t == Head(ring[s][i])
             x == Front(queue[t][i])
         IN  \/ queue' = queue /\ Moves(c, "scan", loc[c])
             \/ /\ queue[t][i] # {}
                /\ \A z \in Tenants, j \in Prios :
                     queue'[z][j] = IF z = t /\ j = i THEN queue[z][j] \ {x} ELSE queue[z][j]
                /\ Moves(c, "commit", [loc[c] EXCEPT !.item = x])
  <1> USE DEF Grounds
  <1> DEFINE s == loc[c].shard
             i == loc[c].level
             t == Head(ring[s][i])
             x == Front(queue[t][i])
  <1>1. /\ c \in Procs /\ t \in Tenants /\ i \in Prios /\ TypeOK
        /\ queue \in [Tenants -> [Prios -> SUBSET DOMAIN task]]
    <2>1. pc[c] = "weigh"
      BY DEF Weigh
    <2> QED
      BY <2>1, AtTheRing DEF TypeInv, TypeOK, SharedOK
  <1>2. CASE queue' = queue /\ Goto(c, "scan") /\ UNCHANGED loc
    BY <1>1, <1>2, Stay
  <1>3. CASE /\ queue[t][i] # {}
             /\ queue' = [queue EXCEPT ![t][i] = @ \ {x}]
             /\ Goto(c, "commit") /\ loc' = [loc EXCEPT ![c].item = x]
    <2>1. Moves(c, "commit", [loc[c] EXCEPT !.item = x])
      BY <1>1, <1>3 DEF Goto, Moves, TypeOK
    <2> HIDE DEF x, t, i
    <2>2. \A z \in Tenants, j \in Prios :
            queue'[z][j] = IF z = t /\ j = i THEN queue[z][j] \ {x} ELSE queue[z][j]
      BY <1>1, <1>3
    <2> QED
      BY <1>3, <2>1, <2>2 DEF x, t, i
  <1> QED
    BY <1>2, <1>3 DEF Weigh

\* The elements of a sequence that was turned, or lost its head.
Turned(new, r) == new = Tail(r) \/ new = Append(Tail(r), Head(r))
Lists(new, r) == \A k \in DOMAIN new : \E j \in DOMAIN r : new[k] = r[j]

LEMMA TurnedSeq ==
  ASSUME NEW S, NEW s \in Seq(S), s # <<>>, NEW new, Turned(new, s)
  PROVE  Lists(new, s)
  <1> DEFINE rest == Tail(s)
  <1>1. /\ rest \in Seq(S) /\ Len(s) \in Nat /\ Len(rest) = Len(s) - 1
        /\ 1 \in DOMAIN s /\ Head(s) = s[1] /\ Head(s) \in S
    OBVIOUS
  <1>2. \A k \in DOMAIN rest : k + 1 \in DOMAIN s /\ rest[k] = s[k + 1]
    OBVIOUS
  <1> HIDE DEF rest
  <1>3. CASE new = rest
    BY <1>1, <1>2, <1>3 DEF Lists
  <1>4. CASE new = Append(rest, Head(s))
    <2>1. /\ DOMAIN new = 1 .. Len(rest) + 1 /\ DOMAIN rest = 1 .. Len(rest)
          /\ Len(rest) \in Nat /\ new[Len(rest) + 1] = s[1]
          /\ \A k \in 1 .. Len(rest) : new[k] = rest[k]
      BY <1>1, <1>4
    <2>2. ASSUME NEW k \in DOMAIN new
          PROVE  k \in DOMAIN rest \/ k = Len(rest) + 1
      BY <2>1
    <2> QED
      BY <1>1, <1>2, <2>1, <2>2 DEF Lists
  <1> QED
    BY <1>3, <1>4 DEF rest, Turned

\* The rings keep to their shards: a visit only turns the ring or shortens it.
LEMMA WeighRings ==
  ASSUME Grounds, NEW c \in Consumers, Weigh(c)
  PROVE  RingsLocal'
  <1> USE DEF Grounds
  <1> DEFINE s == loc[c].shard
             i == loc[c].level
             t == Head(ring[s][i])
             rest == Tail(ring[s][i])
  <1>1. /\ s \in Shards /\ i \in Prios /\ ring[s][i] \in Seq(Tenants)
        /\ ring[s][i] # <<>> /\ t \in Tenants /\ s = ShardOf(t)
        /\ ring \in [Shards -> [Prios -> Seq(Tenants)]]
    <2>1. pc[c] = "weigh"
      BY DEF Weigh
    <2> QED
      BY <2>1, AtTheRing DEF TypeInv, TypeOK, SharedOK
  <1>2. PICK new \in {rest, Append(rest, t)} : ring' = [ring EXCEPT ![s][i] = new]
    BY DEF Weigh
  <1>3. \A z \in Shards, j \in Prios : \A k \in DOMAIN ring[z][j] :
          ShardOf(ring[z][j][k]) = z
    BY DEF LedgerInv, RingsLocal
  <1>4. Lists(new, ring[s][i])
    <2>1. Turned(new, ring[s][i])
      BY <1>2 DEF Turned
    <2> HIDE DEF s, i
    <2> QED
      BY <1>1, <2>1, TurnedSeq
  <1> HIDE DEF rest, t, s, i
  <1>5. \A k \in DOMAIN new : ShardOf(new[k]) = s
    <2> SUFFICES ASSUME NEW k \in DOMAIN new PROVE ShardOf(new[k]) = s
      OBVIOUS
    <2>1. PICK n \in DOMAIN ring[s][i] : new[k] = ring[s][i][n]
      BY <1>4 DEF Lists
    <2> QED
      BY <1>1, <1>3, <2>1
  <1>6. \A z \in Shards, j \in Prios :
          ring'[z][j] = IF z = s /\ j = i THEN new ELSE ring[z][j]
    BY <1>1, <1>2
  <1> QED
    BY <1>3, <1>5, <1>6 DEF RingsLocal

LEMMA WeighKeeps ==
  ASSUME Grounds, TypeInv', NEW c \in Consumers, Weigh(c)
  PROVE  LedgerInv'
  <1> USE DEF Grounds
  <1> DEFINE s == loc[c].shard
             i == loc[c].level
             t == Head(ring[s][i])
             x == Front(queue[t][i])
             w == [loc[c] EXCEPT !.item = x]
  <1>1. /\ c \in Procs /\ c \notin Producers /\ TypeOK /\ TypeOK' /\ pc[c] = "weigh"
        /\ t \in Tenants /\ i \in Prios /\ s = ShardOf(t)
        /\ UNCHANGED <<task, pending, cancelled, fate>>
    <2>1. pc[c] = "weigh"
      BY DEF Weigh
    <2> QED
      BY <2>1, AtTheRing DEF TypeInv, Weigh, slotVars
  <1>2. RingsLocal' /\ c \notin Coming' /\ cancelled \cap pending = {}
    BY <1>1, WeighRings DEF Coming, LedgerInv, MarkersSettled
  <1>3. CASE queue' = queue /\ Moves(c, "scan", loc[c])
    <2>1. HandlesLeft'
      BY <1>1, <1>2, <1>3, StillComing
    <2>2. /\ pc'[c] = "scan" /\ loc'[c] = loc[c]
          /\ \A q \in Procs \ {c} : pc'[q] = pc[q] /\ loc'[q] = loc[q]
      BY <1>1, <1>3, PhaseSets
    <2>3. \A z \in Tenants, j \in Prios : queue'[z][j] \subseteq queue[z][j]
      BY <1>3
    <2>4. \A y \in pending' : y \in queue[task[y].tenant][task[y].prio] =>
                                y \in queue'[task[y].tenant][task[y].prio]
      BY <1>3
    <2> QED
      BY <1>1, <1>2, <2>1, <2>2, <2>3, <2>4, Remains
  <1>4. CASE /\ queue[t][i] # {}
             /\ \A z \in Tenants, j \in Prios :
                  queue'[z][j] = IF z = t /\ j = i THEN queue[z][j] \ {x} ELSE queue[z][j]
             /\ Moves(c, "commit", w)
    <2>1. loc[c] \in LocType
      BY <1>1 DEF TypeOK
    <2>2. w.item = x /\ w.shard = s /\ w.level = i
      BY <2>1 DEF LocType
    <2>3. s = loc[c].shard /\ i = loc[c].level /\ x = Front(queue[t][i])
      OBVIOUS
    <2> HIDE DEF w, x, t, s, i
    <2>4. queue[t][i] \in SUBSET Nat
      BY <1>1, EntryFacts
    <2>5. x \in queue[t][i] /\ \A y \in queue[t][i] : x <= y
      BY <1>4, <2>3, <2>4, FrontInQueue
    <2>6. x \in Nat /\ task[x].tenant = t /\ task[x].prio = i
      BY <1>1, <2>4, <2>5 DEF LedgerInv, QueuesSorted
    <2>7. /\ pc'[c] = "commit" /\ loc'[c] = w
          /\ \A q \in Procs \ {c} : pc'[q] = pc[q] /\ loc'[q] = loc[q]
      BY <1>1, <1>4, PhaseSets
    <2>8. HandlesLeft'
      BY <1>1, <1>2, <1>4, StillComing
    <2>9. PoppedBy(c)'
      <3>1. \A y \in queue'[t][i] : x < y
        <4>1. queue'[t][i] = queue[t][i] \ {x}
          BY <1>1, <1>4
        <4> QED
          BY <2>4, <2>5, <2>6, <4>1
      <3>2. task'[loc'[c].item].tenant = t /\ task'[loc'[c].item].prio = i
        BY <1>1, <2>2, <2>6, <2>7
      <3> QED
        BY <1>1, <2>2, <2>7, <3>1, <3>2 DEF PoppedBy, ShardOf
    <2>10. \A z \in Tenants, j \in Prios : queue'[z][j] \subseteq queue[z][j]
      BY <1>4
    <2>11. ASSUME NEW y \in pending', y \in queue[task[y].tenant][task[y].prio]
           PROVE  \/ y \in queue'[task[y].tenant][task[y].prio]
                  \/ loc'[c].item = y
      <3>1. task[y].tenant \in Tenants /\ task[y].prio \in Prios
        BY <1>1, EntryFacts
      <3> QED
        BY <1>4, <2>2, <2>7, <2>11, <3>1
    <2> QED
      BY <1>1, <1>2, <2>7, <2>8, <2>9, <2>10, <2>11, Remains
  <1> QED
    BY <1>3, <1>4, WeighEffect

LEMMA CommitKeeps ==
  ASSUME Grounds, TypeInv', NEW c \in Consumers, Commit(c)
  PROVE  LedgerInv'
  <1> USE DEF Grounds
  <1> DEFINE x == loc[c].item
             w == [loc[c] EXCEPT !.then = "leave"]
             u == [loc[c] EXCEPT !.item = 0]
             S == {x} \cap pending
  <1>1. /\ c \in Procs /\ c \notin Producers /\ TypeOK /\ pc[c] = "commit"
        /\ UNCHANGED <<task, queue, ring>>
    BY SchedulerAssumption DEF TypeInv, Procs, Commit
  <1>2. RingsLocal' /\ c \notin Coming' /\ cancelled \cap pending = {}
    BY <1>1 DEF LedgerInv, RingsLocal, MarkersSettled, Coming
  <1>3. \A z \in Tenants, j \in Prios : queue'[z][j] \subseteq queue[z][j]
    BY <1>1
  <1>4. \A y \in pending' : y \in queue[task[y].tenant][task[y].prio] =>
                              y \in queue'[task[y].tenant][task[y].prio]
    BY <1>1
  <1>5. CASE x \in pending
    <2>1. x \in Live({x}) \ cancelled
      BY <1>2, <1>5 DEF Live
    <2>2. /\ pending' = pending \ {x} /\ fate' = [fate EXCEPT ![x] = "delivered"]
          /\ cancelled' = cancelled /\ Goto(c, "release")
          /\ loc' = [loc EXCEPT ![c].then = "leave"]
      BY <2>1 DEF Commit
    <2>3. Moves(c, "release", w)
      BY <1>1, <2>2 DEF Goto, Moves, TypeOK
    <2>4. \A y \in Ids : IF y \in S THEN fate'[y] # "queued" ELSE fate'[y] = fate[y]
      <3>1. fate \in [Ids -> Fates]
        BY <1>1 DEF TypeOK, SharedOK
      <3> QED
        BY <1>5, <2>2, <3>1
    <2>5. S \in SUBSET pending /\ pending' = pending \ S /\ cancelled' \subseteq cancelled
          /\ x \notin pending'
      BY <1>5, <2>2
    <2> HIDE DEF w, S
    <2> QED
      BY <1>1, <1>2, <1>3, <1>4, <2>3, <2>4, <2>5, SettlesEntries
  <1>6. CASE x \notin pending
    <2>1. /\ UNCHANGED <<pending, fate>> /\ cancelled' = cancelled \ {x}
          /\ Goto(c, "scan") /\ loc' = [loc EXCEPT ![c].item = 0]
      BY <1>6 DEF Commit, Live
    <2>2. Moves(c, "scan", u)
      BY <1>1, <2>1 DEF Goto, Moves, TypeOK
    <2>3. S \in SUBSET pending /\ pending' = pending \ S /\ cancelled' \subseteq cancelled
          /\ x \notin pending'
      BY <1>6, <2>1
    <2>4. \A y \in Ids : IF y \in S THEN fate'[y] # "queued" ELSE fate'[y] = fate[y]
      BY <1>6, <2>1
    <2> HIDE DEF u, S
    <2> QED
      BY <1>1, <1>2, <1>3, <1>4, <2>2, <2>3, <2>4, SettlesEntries
  <1> QED
    BY <1>5, <1>6

-----------------------------------------------------------------------------
LEMMA InitLedger == Init => LedgerInv
  <1> SUFFICES ASSUME Init PROVE LedgerInv
    OBVIOUS
  <1>1. /\ pending = {} /\ cancelled = {} /\ task = <<>> /\ Len(task) = 0
        /\ \A t \in Tenants, i \in Prios : queue[t][i] = {}
        /\ \A s \in Shards, i \in Prios : ring[s][i] = <<>>
        /\ \A x \in Ids : fate[x] = "none"
        /\ \A p \in Procs : pc[p] = "idle"
    BY DEF Init
  <1>2. \A p \in Producers \cup Consumers : pc[p] = "idle"
    BY <1>1 DEF Procs
  <1>3. /\ NothingLost /\ FatesTrue /\ QueuesSorted /\ RingsLocal /\ MarkersSettled
        /\ PoppedFirst
    BY <1>1, <1>2 DEF NothingLost, FatesTrue, QueuesSorted, RingsLocal, MarkersSettled,
                      PoppedFirst
  <1>4. HandlesLeft
    <2>1. Coming = {}
      BY <1>2 DEF Coming, Inside
    <2> QED
      BY <1>1, <2>1, FS_EmptySet, SchedulerAssumption DEF HandlesLeft
  <1>5. TenantsBounded
    <2>1. \A t \in Tenants : TotalLen(t) = 0
      <3>1. Cardinality({}) = 0
        BY FS_EmptySet
      <3>2. \A t \in Tenants : queue[t][0] = {} /\ queue[t][1] = {} /\ queue[t][2] = {}
        BY <1>1 DEF Prios
      <3>3. \A t \in Tenants : TotalLen(t) = 0 + 0 + 0
        BY <3>1, <3>2, Zenon DEF TotalLen
      <3> QED
        BY <3>3
    <2>2. \A p \in Producers : ~Admitted(p)
      BY <1>2 DEF Admitted
    <2> QED
      BY <2>1, <2>2, SchedulerAssumption DEF TenantsBounded
  <1> QED
    BY <1>3, <1>4, <1>5 DEF LedgerInv

\* The tasks, the queues, the markers and the calls under way stay in step: see
\* LedgerInv.
THEOREM LedgerInvariant == Spec => []LedgerInv
  <1>1. Init => LedgerInv
    BY InitLedger
  <1>2. TypeInv /\ TypeInv' /\ SlotInv /\ LedgerInv /\ [Next]_vars => LedgerInv'
    <2> SUFFICES ASSUME Grounds, TypeInv', [Next]_vars PROVE LedgerInv'
      BY DEF Grounds
    <2>1. CASE \E p \in Producers : Enqueue(p) \/ ProducerStep(p)
      BY <2>1, EnqueueKeeps, CallKeeps, LockKeeps, DropKeeps, ReserveKeeps, PushKeeps
         DEF ProducerStep
    <2>2. CASE \E c \in Consumers : ConsumerStep(c)
      BY <2>2, PollKeeps, VisitKeeps, WeighKeeps, CommitKeeps DEF ConsumerStep, Polls
    <2>3. CASE \/ \E k \in Cancellers : CancelTake(k) \/ CancelMark(k)
               \/ \E k \in Closers : Close(k)
      BY <2>3, CancelKeeps, CloseKeeps
    <2>4. CASE \E p \in Procs : Release(p) \/ NotifyAll(p)
      BY <2>4, SettleKeeps
    <2>5. CASE Expire
      BY <2>5, StutterKeeps DEF Expire, Grounds, slotVars, drrVars
    <2>6. CASE UNCHANGED vars
      BY <2>6, StutterKeeps DEF vars, Grounds, slotVars, entryVars, drrVars
    <2> QED
      BY <2>1, <2>2, <2>3, <2>4, <2>5, <2>6 DEF Next
  <1> QED
    BY <1>1, <1>2, TypeCorrect, SlotInvariant, PTL DEF Spec

\* No path of the code drops a live task: at every step of every thread it is in
\* the queue it was pushed on, or in the hands of the consumer that delivers it.
THEOREM NoTaskIsLost == Spec => []NothingLost
  <1>1. LedgerInv => NothingLost
    BY DEF LedgerInv
  <1> QED
    BY <1>1, LedgerInvariant, PTL

\* No tenant's queues ever hold more than max_per_tenant entries, cancelled and
\* overdue ones included, whatever made room for the push: a purge, a task dropped
\* by the policy or a consumer (scheduler.rs 897-904, 978-1010).
TenantsFit == \A t \in Tenants : TotalLen(t) <= MaxPerTenant
THEOREM TenantCapacityHolds == Spec => []TenantsFit
  <1>1. LedgerInv => TenantsFit
    BY DEF LedgerInv, TenantsBounded, TenantsFit
  <1> QED
    BY <1>1, LedgerInvariant, PTL

-----------------------------------------------------------------------------
(* The refinement of TaskLedger: every step of a thread is a step of the   *)
(* ledger, or one the ledger does not see.  One lemma for each action says *)
(* which.                                                                  *)

\* A step of the ledger, or one that leaves all it talks about alone.
LedgerStep == Ledger!Next \/ UNCHANGED <<mode, task, late, fate, Inside>>

\* The tasks the ledger has queued are those with a pending handle.
LEMMA QueuedIsPending ==
  ASSUME Grounds
  PROVE  Ledger!Queued = pending
  <1> USE DEF Grounds
  <1>1. Len(task) \in Nat /\ MaxTasks \in Nat /\ pending \subseteq 1 .. Len(task)
    BY EntryFacts, SchedulerAssumption
  <1>2. Coming \subseteq Procs /\ IsFiniteSet(Procs)
    BY SchedulerAssumption DEF Coming, Procs
  <1>3. Cardinality(Coming) \in Nat
    BY <1>2, FS_Subset, FS_CardinalityType
  <1>4. Len(task) <= MaxTasks
    BY <1>1, <1>3 DEF LedgerInv, HandlesLeft
  <1>5. pending \subseteq Ids
    BY <1>1, <1>4 DEF Ids
  <1> QED
    BY <1>5 DEF Ledger!Queued, LedgerInv, FatesTrue

\* The producers that the ledger has inside, after a step of p.
InsideAt(l, v) ==
  \/ l \in {"admit", "reserve", "push"}
  \/ l \in {"release", "notify"} /\ v.then \in {"admit", "reserve"}

LEMMA InsideAfter ==
  ASSUME TypeInv, TypeInv', NEW p \in Procs, NEW l, NEW v, Moves(p, l, v)
  PROVE  /\ p \in Producers /\ InsideAt(l, v) => Inside' = Inside \cup {p}
         /\ p \notin Producers \/ ~InsideAt(l, v) => Inside' = Inside \ {p}
  <1>1. /\ pc'[p] = l /\ loc'[p] = v
        /\ \A q \in Producers \ {p} : q \in Inside' <=> q \in Inside
    BY PhaseSets DEF TypeInv
  <1>2. p \in Inside' <=> p \in Producers /\ InsideAt(l, v)
    BY <1>1 DEF Inside, InsideAt
  <1>3. Inside' \subseteq Producers /\ Inside \subseteq Producers
    BY DEF Inside
  <1> QED
    BY <1>1, <1>2, <1>3

\* Settling tasks is a step of the ledger, and settling none is not.
LEMMA Settles ==
  ASSUME Grounds, NEW S \in SUBSET pending, NEW outcome,
         fate' = [x \in Ids |-> IF x \in S THEN outcome ELSE fate[x]],
         UNCHANGED <<mode, task, late>>
  PROVE  /\ S = {} => fate' = fate
         /\ S # {} => Ledger!Settle(S, outcome)
  <1> USE DEF Grounds
  <1>1. fate \in [Ids -> Fates]
    BY DEF TypeInv, TypeOK, SharedOK
  <1>2. S = {} => fate' = fate
    BY <1>1
  <1>3. S # {} => Ledger!Settle(S, outcome)
    BY QueuedIsPending DEF Ledger!Settle
  <1> QED
    BY <1>2, <1>3

LEMMA OneFate ==
  ASSUME TypeInv, NEW x, NEW outcome, fate' = [fate EXCEPT ![x] = outcome]
  PROVE  fate' = [y \in Ids |-> IF y \in {x} THEN outcome ELSE fate[y]]
  BY DEF TypeInv, TypeOK, SharedOK

\* Tasks that expire in passing, in a step that lets nobody in or out.
LEMMA ExpiresInPassing ==
  ASSUME Grounds, NEW S \in SUBSET pending, S \subseteq late,
         fate' = [x \in Ids |-> IF x \in S THEN "expired" ELSE fate[x]],
         UNCHANGED <<mode, task, late>>, Inside' = Inside
  PROVE  LedgerStep
  <1>1. CASE S = {}
    BY <1>1, Settles DEF LedgerStep
  <1>2. CASE S # {}
    <2>1. Ledger!Settle(S, "expired") /\ S \in SUBSET Ledger!Queued
      BY <1>2, Settles, QueuedIsPending
    <2> QED
      BY <2>1 DEF LedgerStep, Ledger!Next, Ledger!Expire
  <1> QED
    BY <1>1, <1>2

-----------------------------------------------------------------------------
(* Producers. *)

\* A call that is refused or starts again.
LEMMA LeavesLedger ==
  ASSUME NEW p \in Producers, UNCHANGED <<mode, task, late, fate>>,
         Inside' = Inside \ {p}
  PROVE  LedgerStep
  BY DEF LedgerStep, Ledger!Next, Ledger!Refuse

LEMMA CallSteps ==
  ASSUME Grounds, TypeInv', NEW p \in Producers,
         Enqueue(p) \/ RetryEnqueue(p) \/ Admit(p) \/ Activate(p) \/ Publish(p)
  PROVE  LedgerStep
  <1> USE DEF Grounds
  <1>1. /\ p \in Procs /\ TypeOK /\ UNCHANGED <<mode, task, late, fate>>
    BY DEF TypeInv, Procs, Enqueue, RetryEnqueue, BeginAttempt, Admit, Activate, Publish,
           entryVars
  <1>2. \/ \E l \in {"lock", "idle", "wait"} : \E v : Moves(p, l, v)
        \/ Moves(p, "reserve", loc[p]) /\ pc[p] = "admit"
        \/ /\ pc[p] \in {"activate", "publish"}
           /\ Moves(p, "publish", loc[p]) \/ Moves(p, "notify", loc[p])
    <2>1. CASE Enqueue(p) \/ RetryEnqueue(p)
      BY <1>1, <2>1, Stay DEF Enqueue, RetryEnqueue, BeginAttempt, Goto, Moves
    <2>2. CASE Admit(p) /\ ~TenantFull(loc[p].job.tenant)
      BY <1>1, <2>2, Stay DEF Admit
    <2>3. CASE Admit(p) /\ TenantFull(loc[p].job.tenant)
      BY <1>1, <2>3, RefuseMoves DEF Admit
    <2>4. CASE Activate(p) \/ Publish(p)
      BY <1>1, <2>4, Stay DEF Activate, Publish, AfterActivation
    <2> QED
      BY <2>1, <2>2, <2>3, <2>4
  <1>3. CASE \E l \in {"lock", "idle", "wait"} : \E v : Moves(p, l, v)
    <2>1. PICK l, v : l \in {"lock", "idle", "wait"} /\ Moves(p, l, v)
      BY <1>3
    <2>2. ~InsideAt(l, v)
      BY <2>1 DEF InsideAt
    <2> QED
      BY <1>1, <2>1, <2>2, InsideAfter, LeavesLedger
  <1>4. CASE Moves(p, "reserve", loc[p]) /\ pc[p] = "admit"
    <2>1. InsideAt("reserve", loc[p]) /\ p \in Inside
      BY <1>4 DEF InsideAt, Inside
    <2>2. Inside' = Inside
      BY <1>1, <1>4, <2>1, InsideAfter
    <2> QED
      BY <1>1, <2>2 DEF LedgerStep
  <1>5. CASE /\ pc[p] \in {"activate", "publish"}
             /\ Moves(p, "publish", loc[p]) \/ Moves(p, "notify", loc[p])
    <2>1. loc[p].then = "idle"
      BY <1>1, <1>5 DEF TypeInv, LocalsSet
    <2>2. ~InsideAt("publish", loc[p]) /\ ~InsideAt("notify", loc[p])
      BY <2>1 DEF InsideAt
    <2> QED
      BY <1>1, <1>5, <2>2, InsideAfter, LeavesLedger
  <1> QED
    BY <1>2, <1>3, <1>4, <1>5

\* The accept check under the lock lets the call in, and the purge that goes with
\* it expires overdue tasks.
LEMMA LockSteps ==
  ASSUME Grounds, TypeInv', NEW p \in Producers, LockForEnqueue(p)
  PROVE  LedgerStep
  <1> USE DEF Grounds
  <1> DEFINE t == loc[p].job.tenant
  <1>1. /\ p \in Procs /\ TypeOK /\ t \in Tenants /\ UNCHANGED <<mode, task, late>>
    BY LocFields DEF TypeInv, Procs, LockForEnqueue
  <1>2. CASE mode # "open"
    <2>1. Moves(p, "idle", Fresh) /\ fate' = fate
      BY <1>1, <1>2, Stay DEF LockForEnqueue
    <2>2. ~InsideAt("idle", Fresh)
      BY DEF InsideAt
    <2> QED
      BY <1>1, <2>1, <2>2, InsideAfter, LeavesLedger
  <1>3. CASE mode = "open"
    <2> DEFINE w == [loc[p] EXCEPT !.wasIdle = ~HasWork(JobShard(p)), !.then = "admit",
                                   !.purged = (PurgeReason(t) = "full")]
    <2>1. loc[p] \in LocType
      BY <1>1 DEF TypeOK
    <2>2. w.then = "admit"
      BY <2>1 DEF LocType
    <2>3. loc' = [loc EXCEPT ![p] = w] /\ Goto(p, IF freed'[p] = {} THEN "admit" ELSE "release")
      BY <1>3 DEF LockForEnqueue
    <2>4. PICK l \in {"admit", "release"} : Moves(p, l, w)
      BY <2>3 DEF Goto, Moves
    <2>5. InsideAt(l, w)
      BY <2>2 DEF InsideAt
    <2> HIDE DEF w
    <2>6. Inside' = Inside \cup {p}
      BY <1>1, <2>4, <2>5, InsideAfter
    <2>7. CASE fate' = fate
      BY <1>1, <1>3, <2>6, <2>7 DEF LedgerStep, Ledger!Next, Ledger!Admit
    <2>8. CASE Purge(p, t, Budget(PurgeReason(t)))
      <3>1. PICK S \in SUBSET pending :
              /\ S \subseteq late
              /\ fate' = [x \in Ids |-> IF x \in S THEN "expired" ELSE fate[x]]
        BY <1>1, <2>8, PurgeEntries
      <3>2. CASE S = {}
        BY <1>1, <2>7, <3>1, <3>2, Settles
      <3>3. CASE S # {}
        <4>1. Ledger!Settle(S, "expired") /\ S \in SUBSET Ledger!Queued
          BY <1>1, <3>1, <3>3, Settles, QueuedIsPending
        <4>2. Ledger!Expire(S)
          BY <1>3, <2>6, <3>1, <4>1 DEF Ledger!Expire
        <4> QED
          BY <4>1, <4>2 DEF LedgerStep, Ledger!Next
      <3> QED
        BY <3>2, <3>3
    <2> QED
      BY <1>3, <2>7, <2>8 DEF LockForEnqueue
  <1> QED
    BY <1>2, <1>3

\* The live entries of the queue a thread works on are all the ledger has there.
LEMMA SameQueueLocked ==
  ASSUME Grounds, NEW p \in Procs, Locking(p), pc[p] # "commit",
         NEW t \in Tenants, HeldShard(p) = ShardOf(t), NEW y \in pending,
         task[y].tenant = t
  PROVE  y \in queue[t][task[y].prio]
  BY LockedLive DEF Grounds

\* A Drop policy drops the oldest or the newest live task of its queue.
LEMMA DropSteps ==
  ASSUME Grounds, TypeInv', NEW p \in Producers, AdmitByDropping(p)
  PROVE  LedgerStep
  <1> USE DEF Grounds
  <1> DEFINE t == loc[p].job.tenant
             prio == loc[p].job.prio
             x == Victim(t, prio)
  <1>1. /\ p \in Procs /\ TypeOK /\ t \in Tenants /\ prio \in Prios /\ pc[p] = "admit"
        /\ UNCHANGED <<mode, task, late>>
    BY LocFields DEF TypeInv, Procs, AdmitByDropping
  <1>2. p \in Inside /\ Locking(p) /\ HeldShard(p) = ShardOf(t)
    BY <1>1 DEF Inside, Locking, HeldShard, JobShard
  <1>3. \A l \in {"push", "reserve"} : Moves(p, l, loc[p]) => Inside' = Inside
    <2>1. \A l \in {"push", "reserve"} : InsideAt(l, loc[p])
      BY DEF InsideAt
    <2> QED
      BY <1>1, <1>2, <2>1, InsideAfter
  <1>4. CASE /\ Moves(p, "reserve", loc[p])
             /\ fate' = fate
    BY <1>1, <1>3, <1>4 DEF LedgerStep
  <1>5. CASE /\ \E l \in {"idle", "wait"} : \E v : Moves(p, l, v)
             /\ fate' = fate
    <2>1. PICK l, v : l \in {"idle", "wait"} /\ Moves(p, l, v)
      BY <1>5
    <2>2. ~InsideAt(l, v)
      BY <2>1 DEF InsideAt
    <2> QED
      BY <1>1, <1>5, <2>1, <2>2, InsideAfter, LeavesLedger
  <1>6. CASE /\ DropLevels(t, prio) # {}
             /\ x \in pending /\ fate' = [fate EXCEPT ![x] = "dropped"]
             /\ Moves(p, "push", loc[p])
    <2>1. PICK i \in Prios : /\ x \in queue[t][i]
                             /\ \/ \A y \in queue[t][i] : x <= y
                                \/ \A y \in queue[t][i] : y <= x
      BY <1>1, <1>6, VictimEntry
    <2> HIDE DEF x, prio
    <2>2. task[x].tenant = t /\ task[x].prio = i
      BY <1>1, <2>1 DEF LedgerInv, QueuesSorted
    <2>3. ASSUME NEW y \in pending, task[x].tenant = task[y].tenant,
                 task[x].prio = task[y].prio
          PROVE  y \in queue[t][i]
      <3>1. PICK z \in Tenants : z = t
        BY <1>1
      <3>2. task[y].tenant = z /\ task[y].prio = i /\ HeldShard(p) = ShardOf(z)
        BY <1>2, <2>2, <2>3, <3>1
      <3> HIDE DEF t
      <3> QED
        BY <1>1, <1>2, <3>1, <3>2, SameQueueLocked
    <2>4. \/ \A y \in Ledger!Queued : Ledger!SameQueue(x, y) => x <= y
          \/ \A y \in Ledger!Queued : Ledger!SameQueue(x, y) => y <= x
      BY <2>1, <2>3, QueuedIsPending DEF Ledger!SameQueue
    <2>5. Ledger!Settle({x}, "dropped")
      BY <1>1, <1>6, OneFate, Settles
    <2>6. Ledger!Drop(p, x) /\ x \in Ledger!Queued
      BY <1>2, <1>3, <1>6, <2>4, <2>5, QueuedIsPending DEF Ledger!Drop
    <2> QED
      BY <2>6 DEF LedgerStep, Ledger!Next
  <1> QED
    BY <1>4, <1>5, <1>6, DropEffect

\* try_reserve_slot, after a purge when the scheduler is full.
LEMMA ReserveSteps ==
  ASSUME Grounds, TypeInv', NEW p \in Producers, Reserve(p)
  PROVE  LedgerStep
  <1> USE DEF Grounds
  <1> DEFINE t == loc[p].job.tenant
             w == [loc[p] EXCEPT !.purged = TRUE, !.then = "reserve"]
  <1>1. /\ p \in Procs /\ TypeOK /\ t \in Tenants /\ pc[p] = "reserve"
        /\ loc[p] \in LocType /\ UNCHANGED <<mode, task, late>>
    BY LocFields DEF TypeInv, Procs, Reserve
  <1>2. p \in Inside
    BY <1>1 DEF Inside
  <1>3. ASSUME Refuse(p), fate' = fate
        PROVE  LedgerStep
    <2>1. PICK l, v : l \in {"idle", "wait"} /\ Moves(p, l, v)
      BY <1>1, <1>3, RefuseMoves
    <2>2. ~InsideAt(l, v)
      BY <2>1 DEF InsideAt
    <2> QED
      BY <1>1, <1>3, <2>1, <2>2, InsideAfter, LeavesLedger
  <1>4. CASE SlotFree
    <2>1. Moves(p, "push", loc[p]) /\ fate' = fate
      BY <1>1, <1>4, Stay DEF Reserve
    <2>2. InsideAt("push", loc[p])
      BY DEF InsideAt
    <2>3. Inside' = Inside
      BY <1>1, <1>2, <2>1, <2>2, InsideAfter
    <2> QED
      BY <1>1, <2>1, <2>3 DEF LedgerStep
  <1>5. CASE ~SlotFree /\ loc[p].purged
    BY <1>3, <1>5 DEF Reserve
  <1>6. CASE ~SlotFree /\ ~loc[p].purged
    <2>1. /\ Purge(p, t, FullBudget)
          /\ IF freed'[p] = {} THEN Refuse(p)
             ELSE Goto(p, "release") /\ loc' = [loc EXCEPT ![p] = w]
      BY <1>6 DEF Reserve
    <2>2. PICK S \in SUBSET pending :
            /\ S \subseteq late
            /\ fate' = [x \in Ids |-> IF x \in S THEN "expired" ELSE fate[x]]
            /\ freed' = [freed EXCEPT ![p] = S]
      BY <1>1, <2>1, PurgeEntries
    <2>3. freed'[p] = S
      BY <1>1, <2>2 DEF TypeOK, SharedOK
    <2>4. CASE S = {}
      BY <1>1, <1>3, <2>1, <2>2, <2>3, <2>4, Settles
    <2>5. CASE S # {}
      <3>1. Moves(p, "release", w)
        BY <2>1, <2>3, <2>5 DEF Goto, Moves
      <3>2. InsideAt("release", w)
        BY <1>1 DEF InsideAt, LocType
      <3> HIDE DEF w
      <3>3. Inside' = Inside
        BY <1>1, <1>2, <3>1, <3>2, InsideAfter
      <3> QED
        BY <1>1, <2>2, <3>3, ExpiresInPassing
    <2> QED
      BY <2>4, <2>5
  <1> QED
    BY <1>4, <1>5, <1>6

\* Two sets hold together at most as much as each holds.
LEMMA UnionBound ==
  ASSUME NEW A, NEW B, IsFiniteSet(A), IsFiniteSet(B)
  PROVE  /\ IsFiniteSet(A \cup B) /\ Cardinality(A \cup B) \in Nat
         /\ Cardinality(A \cup B) <= Cardinality(A) + Cardinality(B)
  <1>1. /\ IsFiniteSet(A \cup B)
        /\ Cardinality(A \cup B) = Cardinality(A) + Cardinality(B) - Cardinality(A \cap B)
    BY FS_Union
  <1>2. Cardinality(A) \in Nat /\ Cardinality(B) \in Nat /\ Cardinality(A \cap B) \in Nat
        /\ Cardinality(A \cup B) \in Nat
    BY <1>1, FS_Intersection, FS_CardinalityType
  <1> QED
    BY <1>1, <1>2

\* A push finds a slot of its own, and room at its tenant.
LEMMA RoomToAccept ==
  ASSUME Grounds, NEW p \in Producers, pc[p] = "push"
  PROVE  /\ Cardinality(pending) < MaxGlobal
         /\ Cardinality({y \in pending : task[y].tenant = loc[p].job.tenant}) < MaxPerTenant
  <1> USE DEF Grounds
  <1>1. p \in Procs /\ \E t \in Tenants : t = loc[p].job.tenant
    BY LocFields DEF TypeInv, Procs
  <1>2. PICK t \in Tenants : t = loc[p].job.tenant
    BY <1>1
  <1>3. MaxGlobal \in Nat /\ MaxPerTenant \in Nat
    BY SchedulerAssumption
  <1>4. Cardinality(pending) < MaxGlobal
    <2>1. /\ IsFiniteSet(Owed) /\ IsFiniteSet(Pushing)
          /\ Cardinality(Owed) \in Nat /\ Cardinality(Pushing) \in Nat
      BY Finiteness
    <2>2. pending \subseteq Owed
      BY DEF Owed
    <2>3. Cardinality(pending) \in Nat /\ Cardinality(pending) <= Cardinality(Owed)
      BY <2>1, <2>2, FS_Subset, FS_CardinalityType
    <2>4. Cardinality(Pushing) > 0
      <3>1. Pushing # {}
        BY DEF Pushing
      <3> QED
        BY <2>1, <3>1, FS_EmptySet
    <2>5. estimate = Cardinality(Owed) + Cardinality(Pushing) /\ estimate <= MaxGlobal
      BY <1>3 DEF SlotInv, SlotsExact
    <2> QED
      BY <1>3, <2>1, <2>3, <2>4, <2>5
  <1>5. Cardinality({y \in pending : task[y].tenant = t}) < MaxPerTenant
    <2> DEFINE mine == {y \in pending : task[y].tenant = t}
    <2>1. Locking(p) /\ HeldShard(p) = ShardOf(t)
      BY <1>2 DEF Locking, HeldShard, JobShard
    <2>2. mine \subseteq (queue[t][0] \cup queue[t][1]) \cup queue[t][2]
      <3>1. ASSUME NEW y \in mine
            PROVE  \E i \in Prios : y \in queue[t][i]
        <4>1. y \in queue[t][task[y].prio]
          BY <1>1, <2>1, <3>1, SameQueueLocked
        <4>2. task[y].prio \in Prios
          BY <3>1, EntryFacts
        <4> QED
          BY <4>1, <4>2
      <3> HIDE DEF mine
      <3> QED
        BY <3>1 DEF Prios
    <2>3. /\ IsFiniteSet(queue[t][0]) /\ IsFiniteSet(queue[t][1]) /\ IsFiniteSet(queue[t][2])
          /\ Cardinality(queue[t][0]) \in Nat /\ Cardinality(queue[t][1]) \in Nat
          /\ Cardinality(queue[t][2]) \in Nat
      BY TotalLenType DEF Prios
    <2> DEFINE low == queue[t][0] \cup queue[t][1]
    <2>4. /\ IsFiniteSet(low) /\ Cardinality(low) \in Nat
          /\ Cardinality(low) <= Cardinality(queue[t][0]) + Cardinality(queue[t][1])
      BY <2>3, UnionBound
    <2>5. /\ IsFiniteSet(low \cup queue[t][2]) /\ Cardinality(low \cup queue[t][2]) \in Nat
          /\ Cardinality(low \cup queue[t][2]) <= Cardinality(low) + Cardinality(queue[t][2])
      <3> HIDE DEF low
      <3> QED
        BY <2>3, <2>4, UnionBound
    <2>6. Cardinality(mine) \in Nat /\ Cardinality(mine) <= Cardinality(low \cup queue[t][2])
      <3> HIDE DEF mine, low
      <3>1. mine \subseteq low \cup queue[t][2]
        BY <2>2 DEF low
      <3> QED
        BY <2>5, <3>1, FS_Subset, FS_CardinalityType
    <2>7. ~TenantFull(t)
      BY <1>2 DEF LedgerInv, TenantsBounded, Admitted
    <2> HIDE DEF mine
    <2>8. Cardinality(mine) <= TotalLen(t) /\ TotalLen(t) \in Nat
      BY <2>3, <2>4, <2>5, <2>6 DEF TotalLen
    <2>9. Cardinality(mine) < MaxPerTenant
      BY <1>3, <2>6, <2>7, <2>8 DEF TenantFull
    <2> QED
      BY <2>9 DEF mine
  <1> QED
    BY <1>2, <1>4, <1>5

\* The ledger counts as everybody does.
LEMMA LedgerCounts ==
  ASSUME NEW S
  PROVE  Ledger!Cardinality(S) = Cardinality(S)
  BY DEF Ledger!Cardinality, Cardinality, Ledger!IsFiniteSet, IsFiniteSet

LEMMA PushSteps ==
  ASSUME Grounds, TypeInv', NEW p \in Producers, Push(p)
  PROVE  LedgerStep
  <1> USE DEF Grounds
  <1> DEFINE r == loc[p].job
             x == Len(task) + 1
  <1>1. p \in Procs /\ pc[p] = "push" /\ p \in Inside /\ UNCHANGED <<mode, late>>
    BY DEF Procs, Push, Inside
  <1>2. x \in Ids /\ r \in Requests
    BY PushEffect
  <1>3. task' = Append(task, r) /\ fate' = [fate EXCEPT ![x] = "queued"]
    BY DEF Push
  <1>4. Inside' = Inside \ {p}
    <2>1. PICK l, v : l \in {"idle", "activate", "notify"} /\ Moves(p, l, v) /\ v.then = "idle"
      BY PushEffect
    <2>2. ~InsideAt(l, v)
      BY <2>1 DEF InsideAt
    <2> QED
      BY <1>1, <2>1, <2>2, InsideAfter
  <1>5. /\ Cardinality(Ledger!Queued) < MaxGlobal
        /\ Cardinality({y \in Ledger!Queued : task[y].tenant = r.tenant}) < MaxPerTenant
    BY <1>1, QueuedIsPending, RoomToAccept
  <1>6. /\ Ledger!Cardinality(Ledger!Queued) < MaxGlobal
        /\ Ledger!Cardinality({y \in Ledger!Queued : task[y].tenant = r.tenant}) < MaxPerTenant
    BY <1>5, LedgerCounts
  <1>7. Ledger!Accept(p, r)
    BY <1>1, <1>2, <1>3, <1>4, <1>6 DEF Ledger!Accept
  <1> QED
    BY <1>2, <1>7 DEF LedgerStep, Ledger!Next

-----------------------------------------------------------------------------
(* Consumers, clients and the release of slots. *)

\* A consumer is never inside, so its steps let nobody in or out.
LEMMA OutsideKeeps ==
  ASSUME TypeInv, TypeInv', NEW p \in Procs, p \notin Producers, NEW l, NEW v, Moves(p, l, v)
  PROVE  Inside' = Inside
  <1>1. Inside' = Inside \ {p} /\ p \notin Inside
    BY InsideAfter DEF Inside
  <1> QED
    BY <1>1

LEMMA PollSteps ==
  ASSUME Grounds, TypeInv', NEW c \in Consumers, Polls(c)
  PROVE  LedgerStep
  <1> USE DEF Grounds
  <1>1. UNCHANGED <<mode, task, late, fate>>
    BY DEF Polls, Observe, EnterTryDequeue, PopShard, LockForDequeue, NextLevel,
           LeaveShard, PutBackShard, NoTask, Doze, WakeUp, entryVars
  <1>2. c \in Procs /\ c \notin Producers /\ TypeOK
    BY SchedulerAssumption DEF Procs, TypeInv
  <1>3. PICK l, v : l \in Labels \ {"commit", "mark"} /\ Moves(c, l, v)
    BY <1>2, PollMoves
  <1>4. Inside' = Inside
    BY <1>2, <1>3, OutsideKeeps
  <1> QED
    BY <1>1, <1>4 DEF LedgerStep

LEMMA VisitSteps ==
  ASSUME Grounds, TypeInv', NEW c \in Consumers, Visit(c)
  PROVE  LedgerStep
  <1> USE DEF Grounds
  <1>1. c \in Procs /\ c \notin Producers /\ UNCHANGED <<mode, task, late>>
    BY SchedulerAssumption DEF Procs, Visit
  <1>2. PICK l, v : l \in {"weigh", "release"} /\ Moves(c, l, v)
    BY VisitEffect
  <1>3. Inside' = Inside
    BY <1>1, <1>2, OutsideKeeps
  <1>4. PICK S \in SUBSET pending :
          /\ S \subseteq late
          /\ fate' = [x \in Ids |-> IF x \in S THEN "expired" ELSE fate[x]]
    BY VisitEffect
  <1> QED
    BY <1>1, <1>3, <1>4, ExpiresInPassing

LEMMA WeighSteps ==
  ASSUME Grounds, TypeInv', NEW c \in Consumers, Weigh(c)
  PROVE  LedgerStep
  <1> USE DEF Grounds
  <1>1. c \in Procs /\ c \notin Producers /\ UNCHANGED <<mode, task, late, fate>>
    BY SchedulerAssumption DEF Procs, Weigh
  <1>2. PICK l, v : Moves(c, l, v)
    BY WeighEffect
  <1>3. Inside' = Inside
    BY <1>1, <1>2, OutsideKeeps
  <1> QED
    BY <1>1, <1>3 DEF LedgerStep

\* The task a consumer delivers is the oldest live one of its queue.
LEMMA CommitSteps ==
  ASSUME Grounds, TypeInv', NEW c \in Consumers, Commit(c)
  PROVE  LedgerStep
  <1> USE DEF Grounds
  <1> DEFINE x == loc[c].item
  <1>1. /\ c \in Procs /\ c \notin Producers /\ UNCHANGED <<mode, task, late>>
        /\ pc[c] = "commit" /\ TypeOK
    BY SchedulerAssumption DEF Procs, Commit, TypeInv
  <1>2. PICK l, v : Moves(c, l, v)
    BY <1>1, Zenon DEF Commit, Goto, Moves
  <1>3. Inside' = Inside
    BY <1>1, <1>2, OutsideKeeps
  <1>4. CASE x \notin Live({x}) \ cancelled
    <2>1. fate' = fate
      BY <1>4 DEF Commit
    <2> QED
      BY <1>1, <1>3, <2>1 DEF LedgerStep
  <1>5. CASE x \in Live({x}) \ cancelled
    <2>1. x \in pending /\ fate' = [fate EXCEPT ![x] = "delivered"]
      BY <1>5 DEF Commit, Live
    <2>2. x \in Nat /\ PoppedBy(c)
      BY <1>1, <2>1, EntryFacts DEF LedgerInv, PoppedFirst
    <2>3. ASSUME NEW y \in pending, task[x].tenant = task[y].tenant,
                 task[x].prio = task[y].prio
          PROVE  x <= y
      <3>1. CASE y \in queue[task[y].tenant][task[y].prio]
        <4>1. x < y /\ y \in Nat
          BY <2>2, <2>3, <3>1, EntryFacts DEF PoppedBy
        <4> QED
          BY <2>2, <4>1
      <3>2. CASE y \notin queue[task[y].tenant][task[y].prio]
        <4>1. PICK d \in Consumers : pc[d] = "commit" /\ loc[d].item = y
          BY <3>2 DEF LedgerInv, NothingLost
        <4>2. d \in Procs /\ d \notin Producers
          BY SchedulerAssumption DEF Procs
        <4>3. loc[d].shard = loc[c].shard
          <5>1. PoppedBy(d)
            BY <4>1 DEF LedgerInv, PoppedFirst
          <5> QED
            BY <2>2, <2>3, <4>1, <5>1 DEF PoppedBy
        <4>4. d = c
          BY <1>1, <4>1, <4>2, <4>3, Alone DEF Locking, HeldShard
        <4> QED
          BY <2>2, <4>1, <4>4
      <3> QED
        BY <3>1, <3>2
    <2> HIDE DEF x
    <2>4. \A y \in Ledger!Queued : Ledger!SameQueue(x, y) => x <= y
      BY <2>3, QueuedIsPending DEF Ledger!SameQueue
    <2>5. Ledger!Settle({x}, "delivered")
      BY <1>1, <2>1, OneFate, Settles
    <2>6. Ledger!Deliver(x) /\ x \in Ledger!Queued
      BY <1>3, <2>1, <2>4, <2>5, QueuedIsPending DEF Ledger!Deliver
    <2> QED
      BY <2>6 DEF LedgerStep, Ledger!Next
  <1> QED
    BY <1>4, <1>5

LEMMA ClientSteps ==
  ASSUME Grounds, TypeInv',
         \/ \E k \in Cancellers : CancelTake(k) \/ CancelMark(k)
         \/ \E k \in Closers : Close(k)
  PROVE  LedgerStep
  <1> USE DEF Grounds
  <1>1. ASSUME NEW k \in Cancellers \cup Closers,
               CancelTake(k) \/ CancelMark(k) \/ Close(k)
        PROVE  Inside' = Inside
    <2>1. k \in Procs /\ k \notin Producers /\ TypeOK
      BY SchedulerAssumption DEF Procs, TypeInv
    <2>2. \E l, v : Moves(k, l, v)
      <3>1. CASE CancelTake(k)
        BY <3>1, Zenon DEF CancelTake, Goto, Moves
      <3>2. CASE CancelMark(k) \/ Close(k)
        BY <2>1, <3>2, Stay DEF CancelMark, Close
      <3> QED
        BY <1>1, <3>1, <3>2
    <2> QED
      BY <2>1, <2>2, OutsideKeeps
  <1>2. ASSUME NEW k \in Cancellers, CancelTake(k)
        PROVE  LedgerStep
    <2>1. PICK x \in pending : fate' = [fate EXCEPT ![x] = "cancelled"]
      BY <1>2 DEF CancelTake
    <2>2. UNCHANGED <<mode, task, late>> /\ Inside' = Inside
      BY <1>1, <1>2 DEF CancelTake
    <2>3. Ledger!Settle({x}, "cancelled") /\ x \in Ledger!Queued
      BY <2>1, <2>2, OneFate, Settles, QueuedIsPending
    <2> QED
      BY <2>2, <2>3 DEF LedgerStep, Ledger!Next, Ledger!Cancel
  <1>3. ASSUME NEW k \in Cancellers, CancelMark(k)
        PROVE  LedgerStep
    BY <1>1, <1>3 DEF CancelMark, entryVars, LedgerStep
  <1>4. ASSUME NEW k \in Closers, Close(k)
        PROVE  LedgerStep
    <2>1. PICK m \in CloseModes : /\ mode # "immediate" /\ (m = "drain" => mode = "open")
                                  /\ mode' = m
      BY <1>4 DEF Close
    <2>2. m \in {"drain", "immediate"} /\ mode \in {"open", "drain", "immediate"}
      BY SchedulerAssumption DEF TypeInv, TypeOK, SharedOK
    <2>3. UNCHANGED <<task, late, fate>> /\ Inside' = Inside
      BY <1>1, <1>4 DEF Close, entryVars
    <2>4. Ledger!Close(m)
      BY <2>1, <2>2, <2>3 DEF Ledger!Close
    <2> QED
      BY <2>2, <2>4 DEF LedgerStep, Ledger!Next
  <1> QED
    BY <1>2, <1>3, <1>4

LEMMA SettleSteps ==
  ASSUME Grounds, TypeInv', NEW p \in Procs, Release(p) \/ NotifyAll(p)
  PROVE  LedgerStep
  <1> USE DEF Grounds
  <1>1. /\ TypeOK /\ UNCHANGED <<mode, task, late, fate>> /\ pc[p] \in {"release", "notify"}
        /\ loc[p].then \in {"idle", "admit", "reserve", "weigh", "leave"}
    BY LocFields DEF TypeInv, Release, NotifyAll, entryVars, LocType
  <1>2. \/ Moves(p, "notify", loc[p])
        \/ Moves(p, loc[p].then, loc[p]) /\ loc[p].then # "idle"
        \/ Moves(p, "idle", Fresh) /\ loc[p].then = "idle"
    BY <1>1, Stay DEF Release, NotifyAll
  <1>3. PICK l, v : /\ Moves(p, l, v)
                    /\ InsideAt(l, v) <=> loc[p].then \in {"admit", "reserve"}
    <2>1. CASE Moves(p, "notify", loc[p])
      BY <2>1 DEF InsideAt
    <2>2. CASE Moves(p, loc[p].then, loc[p]) /\ loc[p].then # "idle"
      BY <1>1, <2>2 DEF InsideAt
    <2>3. CASE Moves(p, "idle", Fresh) /\ loc[p].then = "idle"
      BY <2>3 DEF InsideAt
    <2> QED
      BY <1>2, <2>1, <2>2, <2>3
  <1>4. p \in Inside <=> p \in Producers /\ loc[p].then \in {"admit", "reserve"}
    BY <1>1 DEF Inside
  <1>5. Inside' = Inside
    BY <1>3, <1>4, InsideAfter
  <1> QED
    BY <1>1, <1>5 DEF LedgerStep

-----------------------------------------------------------------------------
LEMMA StepOfLedger ==
  ASSUME Grounds, TypeInv', [Next]_vars
  PROVE  LedgerStep
  <1>1. CASE \E p \in Producers : Enqueue(p) \/ ProducerStep(p)
    BY <1>1, CallSteps, LockSteps, DropSteps, ReserveSteps, PushSteps DEF ProducerStep
  <1>2. CASE \E c \in Consumers : ConsumerStep(c)
    BY <1>2, PollSteps, VisitSteps, WeighSteps, CommitSteps DEF ConsumerStep, Polls
  <1>3. CASE \/ \E k \in Cancellers : CancelTake(k) \/ CancelMark(k)
             \/ \E k \in Closers : Close(k)
    BY <1>3, ClientSteps
  <1>4. CASE \E p \in Procs : Release(p) \/ NotifyAll(p)
    BY <1>4, SettleSteps
  <1>5. CASE Expire
    <2>1. PICK x \in Entries \ late : task[x].deadline /\ late' = late \cup {x}
      BY <1>5 DEF Expire
    <2>2. x \in DOMAIN task /\ UNCHANGED <<mode, task, fate>> /\ Inside' = Inside
      BY <1>5, <2>1 DEF Expire, Entries, Inside
    <2> QED
      BY <2>1, <2>2 DEF LedgerStep, Ledger!Next, Ledger!PassTime
  <1>6. CASE UNCHANGED vars
    BY <1>6 DEF vars, entryVars, Inside, LedgerStep
  <1> QED
    BY <1>1, <1>2, <1>3, <1>4, <1>5, <1>6 DEF Next

\* The scheduler accepts and settles tasks as TaskLedger allows, whatever the
\* threads do: it implements it under the mapping of SchedulerProps.
THEOREM Refinement == Spec => ImplementsLedger
  <1>1. Init => Ledger!Init
    BY DEF Init, Ledger!Init, Inside, Procs
  <1>2. TypeInv /\ TypeInv' /\ SlotInv /\ LedgerInv /\ [Next]_vars
          => [Ledger!Next]_Ledger!ledger
    BY StepOfLedger DEF Grounds, LedgerStep, Ledger!ledger
  <1> QED
    BY <1>1, <1>2, TypeCorrect, SlotInvariant, LedgerInvariant, PTL
       DEF Spec, ImplementsLedger, Ledger!Spec

-----------------------------------------------------------------------------
(* The order of deliveries, from the steps the ledger allows. *)

\* Accepted tasks are numbered in order, and a settled one was accepted.
LEMMA Numbered ==
  ASSUME TypeInv
  PROVE  /\ Len(task) \in Nat /\ DOMAIN task = 1 .. Len(task) /\ task \in Seq(Requests)
         /\ Ids \subseteq Nat /\ DOMAIN fate = Ids
  BY EntryFacts, SchedulerAssumption DEF TypeInv, TypeOK, SharedOK, Ids

LEMMA SettleInOrder ==
  ASSUME TypeInv, OrderInv, NEW S, NEW outcome,
         Ledger!Settle(S, outcome), outcome # "queued",
         outcome = "delivered" =>
           \A x \in S, y \in Ledger!Queued : Ledger!SameQueue(x, y) => x <= y
  PROVE  OrderInv'
  <1>1. /\ task' = task /\ S \subseteq Ledger!Queued
        /\ \A x \in Ids : fate'[x] = IF x \in S THEN outcome ELSE fate[x]
    BY DEF Ledger!Settle
  <1>2. FatesKnown'
    BY <1>1 DEF OrderInv, FatesKnown, Ledger!Queued
  <1>3. ASSUME NEW x \in Ids, NEW y \in Ids, fate'[x] = "queued", fate'[y] = "delivered",
               Ledger!SameQueue(x, y)
        PROVE  y < x
    <2>1. x \notin S /\ fate[x] = "queued" /\ x \in Ledger!Queued
      BY <1>1, <1>3 DEF Ledger!Queued
    <2>2. CASE y \in S
      <3>1. Ledger!SameQueue(y, x)
        BY <1>3 DEF Ledger!SameQueue
      <3>2. y <= x /\ y # x
        BY <1>1, <1>3, <2>1, <2>2, <3>1
      <3> QED
        BY <3>2, Numbered
    <2>3. CASE y \notin S
      BY <1>1, <1>3, <2>1, <2>3 DEF OrderInv, DeliveredInOrder
    <2> QED
      BY <2>2, <2>3
  <1> QED
    BY <1>1, <1>2, <1>3 DEF OrderInv, DeliveredInOrder, Ledger!SameQueue

LEMMA AcceptInOrder ==
  ASSUME TypeInv, OrderInv, NEW p, NEW r, Ledger!Accept(p, r)
  PROVE  OrderInv'
  <1>1. PICK n \in Nat : n = Len(task) + 1
    BY Numbered
  <1>2. /\ n \in Ids /\ task' = Append(task, r)
        /\ fate' = [fate EXCEPT ![n] = "queued"]
    BY <1>1 DEF Ledger!Accept
  <1>3. /\ DOMAIN task' = DOMAIN task \cup {n} /\ n \notin DOMAIN task
        /\ \A x \in DOMAIN task : task'[x] = task[x] /\ x < n
    BY <1>1, <1>2, Numbered
  <1>4. fate'[n] = "queued" /\ \A x \in Ids : x # n => fate'[x] = fate[x]
    BY <1>2, Numbered
  <1>5. FatesKnown'
    BY <1>3, <1>4 DEF OrderInv, FatesKnown
  <1>6. ASSUME NEW x \in Ids, NEW y \in Ids, fate'[x] = "queued", fate'[y] = "delivered",
               Ledger!SameQueue(x, y)'
        PROVE  y < x
    <2>1. y # n /\ fate[y] = "delivered" /\ y \in DOMAIN task
      BY <1>4, <1>6 DEF OrderInv, FatesKnown
    <2>2. CASE x = n
      BY <1>3, <2>1, <2>2
    <2>3. CASE x # n
      <3>1. fate[x] = "queued" /\ x \in DOMAIN task
        BY <1>4, <1>6, <2>3 DEF OrderInv, FatesKnown
      <3>2. Ledger!SameQueue(x, y)
        BY <1>3, <1>6, <2>1, <3>1 DEF Ledger!SameQueue
      <3> QED
        BY <2>1, <3>1, <3>2 DEF OrderInv, DeliveredInOrder
    <2> QED
      BY <2>2, <2>3
  <1> QED
    BY <1>5, <1>6 DEF OrderInv, DeliveredInOrder

LEMMA LedgerInOrder ==
  ASSUME TypeInv, OrderInv, LedgerStep
  PROVE  OrderInv'
  <1>1. ASSUME UNCHANGED <<task, fate>> PROVE OrderInv'
    BY <1>1 DEF OrderInv, DeliveredInOrder, FatesKnown, Ledger!SameQueue
  <1>2. ASSUME NEW p \in Producers, Ledger!Admit(p) \/ Ledger!Refuse(p) PROVE OrderInv'
    BY <1>1, <1>2 DEF Ledger!Admit, Ledger!Refuse
  <1>3. ASSUME NEW p \in Producers, NEW r \in Requests, Ledger!Accept(p, r) PROVE OrderInv'
    BY <1>3, AcceptInOrder
  <1>4. ASSUME NEW p \in Producers, NEW x, Ledger!Drop(p, x) PROVE OrderInv'
    <2>1. Ledger!Settle({x}, "dropped")
      BY <1>4 DEF Ledger!Drop
    <2> QED
      BY <2>1, SettleInOrder
  <1>5. ASSUME NEW x, Ledger!Deliver(x) PROVE OrderInv'
    <2>1. Ledger!Settle({x}, "delivered") /\ \A y \in Ledger!Queued : Ledger!SameQueue(x, y) => x <= y
      BY <1>5 DEF Ledger!Deliver
    <2> QED
      BY <2>1, SettleInOrder
  <1>6. ASSUME NEW x, Ledger!Cancel(x) PROVE OrderInv'
    <2>1. Ledger!Settle({x}, "cancelled")
      BY <1>6 DEF Ledger!Cancel
    <2> QED
      BY <2>1, SettleInOrder
  <1>7. ASSUME NEW S, Ledger!Expire(S) PROVE OrderInv'
    <2>1. Ledger!Settle(S, "expired")
      BY <1>7 DEF Ledger!Expire
    <2> QED
      BY <2>1, SettleInOrder
  <1>8. ASSUME NEW m, Ledger!Close(m) PROVE OrderInv'
    BY <1>1, <1>8 DEF Ledger!Close
  <1>9. ASSUME NEW x, Ledger!PassTime(x) PROVE OrderInv'
    BY <1>1, <1>9 DEF Ledger!PassTime
  <1> QED
    BY <1>1, <1>2, <1>3, <1>4, <1>5, <1>6, <1>7, <1>8, <1>9 DEF LedgerStep, Ledger!Next

\* Deliveries keep the order of acceptance within a tenant and priority, through
\* every interleaving of consumers, producers and cancellers (DeliveredInOrder).
THEOREM DeliveriesInOrder == Spec => []DeliveredInOrder
  <1>1. Init => OrderInv
    BY DEF Init, OrderInv, DeliveredInOrder, FatesKnown
  <1>2. TypeInv /\ TypeInv' /\ SlotInv /\ LedgerInv /\ OrderInv /\ [Next]_vars => OrderInv'
    BY StepOfLedger, LedgerInOrder DEF Grounds
  <1>3. OrderInv => DeliveredInOrder
    BY DEF OrderInv
  <1> QED
    BY <1>1, <1>2, <1>3, TypeCorrect, SlotInvariant, LedgerInvariant, PTL DEF Spec
=============================================================================
