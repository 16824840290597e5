--------------------------- MODULE SchedulerWakes ---------------------------
(***************************************************************************)
(* That nobody sleeps in vain, for any number of threads, tenants, shards  *)
(* and tasks: a consumer on the WorkSignal while there is work, a producer *)
(* on not_full while its tenant has room.  First what each kind of step    *)
(* takes out of the queues, then one lemma per kind of step for each of    *)
(* the two invariants.                                                     *)
(***************************************************************************)
EXTENDS SchedulerService

-----------------------------------------------------------------------------
(* What leaves the queues. *)

\* The tasks of R leave the queues, the pending set and the markers.
Takes(R) ==
  /\ pending' = pending \ R /\ cancelled' = cancelled \ R
  /\ \A t \in Tenants, i \in Prios : queue'[t][i] = queue[t][i] \ R

\* Only what is dead is purged.
LEMMA PurgeableDead ==
  ASSUME NEW q \in SUBSET Nat, NEW budget
  PROVE  /\ DeadPrefix(q) \subseteq q \cap Dead
         /\ Purgeable(q, budget) \subseteq q \cap Dead
  <1>1. \A x \in q : x <= x
    OBVIOUS
  <1>2. DeadPrefix(q) \subseteq q \cap Dead
    BY <1>1 DEF DeadPrefix
  <1>3. SideScan(q \ DeadPrefix(q), budget) \subseteq q \cap Dead
    BY DEF SideScan
  <1> QED
    BY <1>2, <1>3 DEF Purgeable

\* An entry is in one queue only.
LEMMA OneQueue ==
  ASSUME LedgerInv, NEW t \in Tenants, NEW i \in Prios, NEW x \in queue[t][i],
         NEW z \in Tenants, NEW j \in Prios, x \in queue[z][j]
  PROVE  z = t /\ j = i
  BY DEF LedgerInv, QueuesSorted

\* A popped task is in no queue.
LEMMA PoppedOut ==
  ASSUME TypeInv, LedgerInv, NEW c \in Consumers, pc[c] = "commit",
         NEW t \in Tenants, NEW i \in Prios
  PROVE  loc[c].item \notin queue[t][i]
  <1>1. PoppedBy(c)
    BY DEF LedgerInv, PoppedFirst
  <1>2. queue[t][i] \subseteq Nat
    BY EntryFacts
  <1>3. SUFFICES ASSUME loc[c].item \in queue[t][i]
                 PROVE  FALSE
    OBVIOUS
  <1>4. task[loc[c].item].tenant = t /\ task[loc[c].item].prio = i
    BY <1>3 DEF LedgerInv, QueuesSorted
  <1>5. loc[c].item < loc[c].item
    BY <1>1, <1>3, <1>4 DEF PoppedBy
  <1> QED
    BY <1>2, <1>3, <1>5

\* purge_tenant_for_enqueue takes what is purgeable of every queue of the tenant,
\* and the slots of the live tasks among it.
LEMMA PurgeTakes ==
  ASSUME Grounds, NEW p \in Procs, NEW t \in Tenants, NEW budget, Purge(p, t, budget)
  PROVE  \E R : /\ Takes(R) /\ freed'[p] = R \cap pending
                /\ \A i \in Prios : Purgeable(queue[t][i], budget) \subseteq R
                /\ \A x \in R : \E i \in Prios :
                     x \in queue[t][i] /\ x \in Purgeable(queue[t][i], budget)
  <1> USE DEF Grounds
  <1> DEFINE gone == [i \in Prios |-> Purgeable(queue[t][i], budget)]
             R == UNION {gone[i] : i \in Prios}
  <1>1. /\ queue \in [Tenants -> [Prios -> SUBSET DOMAIN task]]
        /\ freed \in [Procs -> SUBSET DOMAIN task]
    BY DEF TypeInv, TypeOK, SharedOK
  <1>2. /\ pending' = pending \ R /\ cancelled' = cancelled \ R
        /\ freed'[p] = R \cap pending
    BY <1>1 DEF Purge, Live
  <1>3. queue' = [queue EXCEPT ![t] = [i \in Prios |-> queue[t][i] \ gone[i]]]
    BY <1>1 DEF Purge
  <1>4. \A i \in Prios : gone[i] \subseteq queue[t][i]
    <2>1. \A i \in Prios : queue[t][i] \in SUBSET Nat
      BY EntryFacts
    <2> QED
      BY <2>1, PurgeableDead
  <1>5. \A i \in Prios : gone[i] = Purgeable(queue[t][i], budget)
    OBVIOUS
  <1> HIDE DEF gone
  <1>6. \A z \in Tenants, i \in Prios :
          queue'[z][i] = IF z = t THEN queue[t][i] \ gone[i] ELSE queue[z][i]
    BY <1>1, <1>3
  <1>7. \A x : x \in R <=> \E i \in Prios : x \in gone[i]
    OBVIOUS
  <1> HIDE DEF R
  <1>8. ASSUME NEW z \in Tenants, NEW i \in Prios
        PROVE  queue'[z][i] = queue[z][i] \ R
    <2>1. ASSUME NEW x \in queue[z][i], x \in R
          PROVE  z = t /\ x \in gone[i]
      BY <1>4, <1>7, <2>1, OneQueue
    <2> QED
      BY <1>6, <1>7, <2>1
  <1> QED
    BY <1>2, <1>4, <1>5, <1>7, <1>8 DEF Takes

\* The other steps that take entries: a visit drops the dead prefix of a queue,
\* the drop policies take a victim, and a commit settles what was popped.
LEMMA VisitTakes ==
  ASSUME Grounds, NEW c \in Consumers, Visit(c)
  PROVE  \E t \in Tenants, i \in Prios :
           LET R == DeadPrefix(queue[t][i])
           IN  /\ Takes(R)
               /\ \/ R \cap pending = {} /\ \E v : Moves(c, "weigh", v)
                  \/ \E v : Moves(c, "release", v)
  <1> USE DEF Grounds
  <1> DEFINE s == loc[c].shard
             i == loc[c].level
             t == Head(ring[s][i])
             R == DeadPrefix(queue[t][i])
             S == Live(R \ cancelled)
  <1>1. /\ t \in Tenants /\ i \in Prios
        /\ queue \in [Tenants -> [Prios -> SUBSET DOMAIN task]]
        /\ queue[t][i] \in SUBSET Nat
    <2>1. pc[c] = "scan" /\ loc[c].visits > 0
      BY DEF Visit
    <2>2. t \in Tenants /\ i \in Prios
      BY <2>1, AtTheRing
    <2>3. queue[t][i] \in SUBSET Nat
      <3> HIDE DEF t, i
      <3> QED
        BY <2>2, EntryFacts
    <2> QED
      BY <2>2, <2>3 DEF TypeInv, TypeOK, SharedOK
  <1>2. /\ queue' = [queue EXCEPT ![t][i] = @ \ R]
        /\ cancelled' = cancelled \ R /\ pending' = pending \ S
        /\ \E v : loc' = [loc EXCEPT ![c] = v]
        /\ Goto(c, IF S = {} THEN "weigh" ELSE "release")
    BY Zenon DEF Visit
  <1>3. cancelled \cap pending = {}
    BY DEF LedgerInv, MarkersSettled
  <1>4. R \subseteq queue[t][i]
    BY <1>1, PurgeableDead
  <1>5. S = R \cap pending
    <2> HIDE DEF R
    <2> QED
      BY <1>3 DEF Live
  <1> HIDE DEF R, S, t, i
  <1>6. \A z \in Tenants, j \in Prios :
          queue'[z][j] = IF z = t /\ j = i THEN queue[z][j] \ R ELSE queue[z][j]
    BY <1>1, <1>2
  <1>7. ASSUME NEW z \in Tenants, NEW j \in Prios
        PROVE  queue'[z][j] = queue[z][j] \ R
    <2>1. ASSUME NEW x \in queue[z][j], x \in R
          PROVE  z = t /\ j = i
      BY <1>1, <1>4, <2>1, OneQueue
    <2> QED
      BY <1>6, <2>1
  <1>8. Takes(R)
    BY <1>2, <1>5, <1>7 DEF Takes
  <1>9. \/ S = {} /\ \E v : Moves(c, "weigh", v)
        \/ \E v : Moves(c, "release", v)
    BY <1>2 DEF Goto, Moves
  <1> QED
    BY <1>1, <1>5, <1>8, <1>9 DEF R

LEMMA DropTakes ==
  ASSUME Grounds, NEW p \in Producers, AdmitByDropping(p)
  PROVE  \E R : /\ Takes(R)
                /\ \A x \in R : \E i \in Prios : x \in queue[loc[p].job.tenant][i]
  <1> USE DEF Grounds
  <1> DEFINE t == loc[p].job.tenant
             prio == loc[p].job.prio
             x == Victim(t, prio)
  <1>1. t \in Tenants /\ prio \in Prios
    BY LocFields DEF TypeInv, Procs
  <1>2. CASE UNCHANGED <<pending, cancelled, queue, fate>>
    <2>1. Takes({})
      BY <1>2 DEF Takes
    <2> QED
      BY <2>1
  <1>3. CASE /\ DropLevels(t, prio) # {}
             /\ \A j \in Prios : queue'[t][j] = queue[t][j] \ {x}
             /\ \A z \in Tenants \ {t} : queue'[z] = queue[z]
             /\ cancelled' = cancelled \ {x} /\ pending' = pending \ {x}
    <2>1. PICK i \in Prios : x \in queue[t][i]
      BY <1>1, <1>3, VictimEntry
    <2> HIDE DEF x, t
    <2>2. ASSUME NEW z \in Tenants, NEW j \in Prios
          PROVE  queue'[z][j] = queue[z][j] \ {x}
      <3>1. CASE z = t
        BY <1>3, <3>1
      <3>2. CASE z # t
        <4>1. x \notin queue[z][j]
          BY <1>1, <2>1, <3>2, OneQueue
        <4> QED
          BY <1>3, <3>2, <4>1
      <3> QED
        BY <3>1, <3>2
    <2>3. Takes({x})
      BY <1>3, <2>2 DEF Takes
    <2>4. \A y \in {x} : \E j \in Prios : y \in queue[t][j]
      BY <2>1
    <2> QED
      BY <2>3, <2>4 DEF t
  <1> QED
    BY <1>2, <1>3, DropEffect

LEMMA CommitTakes ==
  ASSUME Grounds, NEW c \in Consumers, Commit(c)
  PROVE  /\ Takes({loc[c].item})
         /\ \/ loc[c].item \in pending /\ \E v : Moves(c, "release", v)
            \/ loc[c].item \notin pending /\ \E v : Moves(c, "scan", v)
  <1> USE DEF Grounds
  <1> DEFINE x == loc[c].item
  <1>1. pc[c] = "commit" /\ queue' = queue
    BY DEF Commit
  <1>2. \A t \in Tenants, i \in Prios : x \notin queue[t][i]
    BY <1>1, PoppedOut
  <1> HIDE DEF x
  <1>3. \A t \in Tenants, i \in Prios : queue'[t][i] = queue[t][i] \ {x}
    BY <1>1, <1>2
  <1>4. x \in Live({x}) \ cancelled <=> x \in pending
    BY DEF Live, LedgerInv, MarkersSettled
  <1>5. CASE x \in pending
    <2>1. /\ pending' = pending \ {x} /\ cancelled' = cancelled /\ Goto(c, "release")
          /\ \E v : loc' = [loc EXCEPT ![c] = v]
      BY <1>4, <1>5, Zenon DEF Commit, x
    <2>2. cancelled' = cancelled \ {x}
      BY <1>4, <1>5, <2>1
    <2> QED
      BY <1>5, <1>3, <2>1, <2>2 DEF Takes, Goto, Moves, x
  <1>6. CASE x \notin pending
    <2>1. /\ pending' = pending /\ cancelled' = cancelled \ {x} /\ Goto(c, "scan")
          /\ \E v : loc' = [loc EXCEPT ![c] = v]
      BY <1>4, <1>6, Zenon DEF Commit, x
    <2> QED
      BY <1>6, <1>3, <2>1 DEF Takes, Goto, Moves, x
  <1> QED
    BY <1>5, <1>6 DEF x

-----------------------------------------------------------------------------
(* Without cancellers, no blocking consumer sleeps on work. *)

\* A step that wakes everybody, that is on its way to do so, or that adds no task
\* and puts nobody to sleep while there is one, keeps the invariant.
LEMMA WorkStays ==
  ASSUME Grounds, TypeInv', WorkInv, NEW p \in Procs, NEW l, NEW v, Moves(p, l, v),
         cancelled' = {},
         \A t \in Tenants, i \in Prios : queue'[t][i] \subseteq pending',
         \/ current' = {}
         \/ l \in {"release", "notify"}
         \/ l \in {"activate", "publish"} /\ v.signal
         \/ /\ current' \subseteq current \cup {p} /\ ~Alerting(p)
            /\ pending = {} => pending' = {}
            /\ p \in Consumers /\ l = "wait" => pending' = {}
  PROVE  WorkInv'
  <1> USE DEF Grounds
  <1>1. /\ pc'[p] = l /\ loc'[p] = v
        /\ \A q \in Procs \ {p} : pc'[q] = pc[q] /\ loc'[q] = loc[q]
    BY PhaseSets DEF TypeInv
  <1> SUFFICES ASSUME NEW c \in Consumers, Asleep(c)'
               PROVE  pending' = {} \/ \E q \in Procs : Alerting(q)'
    BY DEF WorkInv
  <1>2. c \in Procs /\ pc'[c] = "wait" /\ c \in current'
    BY DEF Asleep, Procs
  <1>3. CASE current' = {}
    BY <1>2, <1>3
  <1>4. ASSUME l \in {"release", "notify"} \/ (l \in {"activate", "publish"} /\ v.signal)
        PROVE  \E q \in Procs : Alerting(q)'
    <2>1. Alerting(p)'
      BY <1>1, <1>4 DEF Alerting
    <2> QED
      BY <2>1
  <1>5. ASSUME current' \subseteq current \cup {p}, ~Alerting(p),
               pending = {} => pending' = {},
               p \in Consumers /\ l = "wait" => pending' = {}
        PROVE  pending' = {} \/ \E q \in Procs : Alerting(q)'
    <2>1. CASE c = p
      BY <1>1, <1>2, <1>5, <2>1
    <2>2. CASE c # p
      <3>1. Asleep(c)
        BY <1>1, <1>2, <1>5, <2>2 DEF Asleep
      <3>2. CASE pending = {}
        BY <1>5, <3>2
      <3>3. CASE pending # {}
        <4>1. PICK q \in Procs : Alerting(q)
          BY <3>1, <3>3 DEF WorkInv
        <4>2. q # p
          BY <1>5, <4>1
        <4>3. Alerting(q)'
          BY <1>1, <4>1, <4>2 DEF Alerting
        <4> QED
          BY <4>3
      <3> QED
        BY <3>2, <3>3
    <2> QED
      BY <2>1, <2>2
  <1> QED
    BY <1>3, <1>4, <1>5

\* Taking entries adds no work.
LEMMA WorkTaken ==
  ASSUME WorkInv, NEW R, Takes(R)
  PROVE  /\ cancelled' = {} /\ (pending = {} => pending' = {})
         /\ \A t \in Tenants, i \in Prios : queue'[t][i] \subseteq pending'
  <1>1. /\ pending' = pending \ R /\ cancelled' = cancelled \ R
        /\ \A t \in Tenants, i \in Prios : queue'[t][i] = queue[t][i] \ R
    BY DEF Takes
  <1> QED
    BY <1>1 DEF WorkInv

LEMMA NothingTaken ==
  ASSUME UNCHANGED <<pending, cancelled, queue>>
  PROVE  Takes({})
  BY DEF Takes

\* The calls of the producers.
LEMMA CallWork ==
  ASSUME Grounds, TypeInv', WorkInv, NEW p \in Producers,
         \/ Enqueue(p) \/ RetryEnqueue(p) \/ LockForEnqueue(p) \/ Admit(p)
         \/ AdmitByDropping(p) \/ Reserve(p) \/ Activate(p) \/ Publish(p)
  PROVE  WorkInv'
  <1> USE DEF Grounds
  <1> DEFINE t == loc[p].job.tenant
  <1>1. p \in Procs /\ p \notin Consumers /\ TypeOK /\ t \in Tenants
    BY SchedulerAssumption, LocFields DEF TypeInv, Procs
  <1>2. CASE Activate(p) \/ Publish(p)
    <2>1. /\ Takes({}) /\ current' = current /\ pc[p] \in {"activate", "publish"}
      BY <1>2, NothingTaken DEF Activate, Publish, slotVars, entryVars
    <2>2. \/ \E l \in {"publish", "notify"} : Moves(p, l, loc[p]) /\ (l = "publish" \/ loc[p].signal)
          \/ Moves(p, "idle", Fresh) /\ ~loc[p].signal
      BY <1>1, <1>2, Stay DEF Activate, Publish, AfterActivation
    <2>3. CASE loc[p].signal
      <3>1. PICK l \in {"publish", "notify"} : Moves(p, l, loc[p])
        BY <2>2, <2>3
      <3> QED
        BY <1>1, <2>1, <2>3, <3>1, WorkTaken, WorkStays
    <2>4. CASE ~loc[p].signal
      <3>1. PICK l, v : Moves(p, l, v)
        BY <2>2
      <3>2. ~Alerting(p)
        BY <2>1, <2>4 DEF Alerting
      <3>3. current' \subseteq current \cup {p}
        BY <2>1
      <3> QED
        BY <1>1, <2>1, <3>1, <3>2, <3>3, WorkTaken, WorkStays
    <2> QED
      BY <2>3, <2>4
  <1>3. CASE ~(Activate(p) \/ Publish(p))
    <2>1. \E R : Takes(R)
      <3>1. CASE UNCHANGED <<pending, cancelled, queue>>
        BY <3>1, NothingTaken
      <3>2. CASE \E budget : Purge(p, t, budget)
        BY <1>1, <3>2, PurgeTakes
      <3>3. CASE AdmitByDropping(p)
        BY <3>3, DropTakes
      <3> QED
        BY <1>3, <3>1, <3>2, <3>3
           DEF Enqueue, RetryEnqueue, BeginAttempt, LockForEnqueue, Admit, Reserve,
               slotVars, entryVars
    <2>2. /\ current' \subseteq current \cup {p}
          /\ pc[p] \in {"idle", "wait", "lock", "admit", "reserve"}
      BY <1>3 DEF Enqueue, RetryEnqueue, BeginAttempt, LockForEnqueue, Admit,
                  AdmitByDropping, Reserve
    <2>3. Serves(p)
      BY <1>3 DEF Serves, ProducerStep
    <2>4. PICK l, v : Moves(p, l, v)
      BY <2>3, ServesMoves
    <2>5. ~Alerting(p)
      BY <2>2 DEF Alerting
    <2>6. PICK R : Takes(R)
      BY <2>1
    <2> QED
      BY <1>1, <2>2, <2>4, <2>5, <2>6, WorkTaken, WorkStays
  <1> QED
    BY <1>2, <1>3

\* A push into an empty queue is followed by a notification; one into another
\* queue adds work where there is some.
LEMMA PushWork ==
  ASSUME Grounds, TypeInv', WorkInv, NEW p \in Producers, Push(p)
  PROVE  WorkInv'
  <1> USE DEF Grounds
  <1> DEFINE r == loc[p].job
             x == Len(task) + 1
             v == [loc[p] EXCEPT !.item = x, !.signal = MustNotify(queue[r.tenant][r.prio]),
                                 !.then = "idle"]
  <1>1. /\ p \in Procs /\ p \notin Consumers /\ TypeOK /\ r.tenant \in Tenants /\ r.prio \in Prios
        /\ pc[p] = "push" /\ current' = current /\ cancelled' = cancelled
    BY SchedulerAssumption, LocFields DEF TypeInv, Procs, Push
  <1>2. /\ pending' = pending \cup {x}
        /\ \A t \in Tenants, i \in Prios :
             queue'[t][i] = IF t = r.tenant /\ i = r.prio
                            THEN queue[t][i] \cup {x} ELSE queue[t][i]
    BY PushEffect
  <1>3. cancelled' = {} /\ \A t \in Tenants, i \in Prios : queue'[t][i] \subseteq pending'
    <2> HIDE DEF x
    <2>1. \A t \in Tenants, i \in Prios : queue'[t][i] \subseteq queue[t][i] \cup {x}
      BY <1>2
    <2> QED
      BY <1>1, <1>2, <2>1 DEF WorkInv
  <1>4. CASE queue[r.tenant][r.prio] = {}
    <2>1. \/ Goto(p, "activate") /\ loc' = [loc EXCEPT ![p] = v]
          \/ Goto(p, "notify") /\ loc' = [loc EXCEPT ![p] = v]
      BY <1>4 DEF Push, MustNotify
    <2>2. v.signal
      <3>1. loc[p] \in LocType
        BY <1>1 DEF TypeOK
      <3> QED
        BY <1>4, <3>1 DEF LocType, MustNotify
    <2>3. PICK l \in {"activate", "notify"} : Moves(p, l, v)
      BY <2>1 DEF Goto, Moves
    <2> HIDE DEF v
    <2> QED
      BY <1>1, <1>3, <2>2, <2>3, WorkStays
  <1>5. CASE queue[r.tenant][r.prio] # {}
    <2>1. pending # {}
      BY <1>1, <1>5 DEF WorkInv
    <2>2. PICK l, w : Moves(p, l, w)
      BY PushEffect
    <2>3. ~Alerting(p) /\ current' \subseteq current \cup {p}
      BY <1>1 DEF Alerting
    <2> QED
      BY <1>1, <1>3, <2>1, <2>2, <2>3, WorkStays
  <1> QED
    BY <1>4, <1>5

\* The rounds of the consumers: whoever goes to sleep finds no slot in use.
LEMMA ConsumerWork ==
  ASSUME Grounds, TypeInv', WorkInv, NEW c \in Consumers,
         Polls(c) \/ Visit(c) \/ Weigh(c) \/ Commit(c)
  PROVE  WorkInv'
  <1> USE DEF Grounds
  <1>1. c \in Procs /\ TypeOK
    BY DEF TypeInv, Procs
  <1>2. CASE Polls(c)
    <2>1. /\ Takes({}) /\ current' \subseteq current \cup {c}
          /\ pc[c] \notin {"release", "notify", "activate", "publish"}
      BY <1>2, NothingTaken
         DEF Polls, Observe, EnterTryDequeue, PopShard, LockForDequeue, NextLevel,
             LeaveShard, PutBackShard, NoTask, Doze, WakeUp, slotVars, entryVars
    <2>2. PICK l, v : Moves(c, l, v)
      BY <1>1, <1>2, PollMoves
    <2>3. ~Alerting(c)
      BY <2>1 DEF Alerting
    <2>4. l = "wait" => pending' = {}
      <3>1. l = "wait" => Doze(c) /\ estimate = 0
        <4>1. pc'[c] = l /\ pc \in [Procs -> Labels] /\ estimate \in Nat
          BY <1>1, <2>2, PhaseSets DEF TypeInv, TypeOK, SharedOK
        <4>2. pc'[c] = "wait" => Doze(c)
          <5>1. Goto(c, "wait") => Doze(c)
            BY <1>1, <1>2, <4>1
               DEF Polls, Observe, EnterTryDequeue, ReturnClosed, PopShard, LockForDequeue,
                   NextLevel, SeekLevel, LeaveShard, PutBackShard, ReturnOrGoOn, Return,
                   NoTask, WakeUp, Goto
          <5>2. pc'[c] = "wait" => Goto(c, "wait")
            BY <1>1, <2>2, <4>1 DEF Goto, Moves
          <5> QED
            BY <5>1, <5>2
        <4>3. Doze(c) /\ pc'[c] = "wait" => estimate = 0
          BY <1>1, <4>1 DEF Doze, Goto
        <4> QED
          BY <4>1, <4>2, <4>3
      <3>2. estimate = 0 => pending = {}
        <4> SUFFICES ASSUME estimate = 0
                     PROVE  pending = {}
          OBVIOUS
        <4>1. Cardinality(Owed) = 0
          BY Finiteness DEF SlotInv, SlotsExact
        <4>2. Owed = {}
          BY <4>1, Finiteness, FS_EmptySet
        <4> QED
          BY <4>2 DEF Owed
      <3> QED
        BY <2>1, <3>1, <3>2, WorkTaken
    <2> QED
      BY <1>1, <2>1, <2>2, <2>3, <2>4, WorkTaken, WorkStays
  <1>3. CASE Weigh(c)
    <2>1. /\ current' = current /\ pc[c] = "weigh" /\ UNCHANGED <<pending, cancelled>>
      BY <1>3 DEF Weigh, slotVars
    <2>2. /\ \E l \in {"scan", "commit"} : \E v : Moves(c, l, v)
          /\ \A t \in Tenants, i \in Prios : queue'[t][i] \subseteq queue[t][i]
      BY <1>3, WeighEffect
    <2>3. PICK l, v : l \in {"scan", "commit"} /\ Moves(c, l, v)
      BY <2>2
    <2>4. ~Alerting(c) /\ current' \subseteq current \cup {c}
      BY <2>1 DEF Alerting
    <2>5. cancelled' = {} /\ \A t \in Tenants, i \in Prios : queue'[t][i] \subseteq pending'
      BY <2>1, <2>2 DEF WorkInv
    <2> QED
      BY <1>1, <2>1, <2>3, <2>4, <2>5, WorkStays
  <1>4. CASE Visit(c) \/ Commit(c)
    <2>1. current' = current /\ pc[c] \in {"scan", "commit"}
      BY <1>4 DEF Visit, Commit
    <2>2. PICK R : Takes(R)
      BY <1>4, VisitTakes, CommitTakes
    <2>a. PICK l \in {"weigh", "release", "scan"} : \E v : Moves(c, l, v)
      <3>1. Visit(c) => \E l \in {"weigh", "release", "scan"} : \E v : Moves(c, l, v)
        BY VisitTakes
      <3>2. Commit(c) => \E l \in {"weigh", "release", "scan"} : \E v : Moves(c, l, v)
        BY CommitTakes
      <3> QED
        BY <1>4, <3>1, <3>2, Zenon
    <2>3. PICK v : l \in {"weigh", "release", "scan"} /\ Moves(c, l, v)
      BY <2>a
    <2>4. ~Alerting(c) /\ current' \subseteq current \cup {c}
      BY <2>1 DEF Alerting
    <2> QED
      BY <1>1, <2>2, <2>3, <2>4, WorkTaken, WorkStays
  <1> QED
    BY <1>2, <1>3, <1>4

\* Who closes, releases or notifies wakes the others.
LEMMA SettleWork ==
  ASSUME Grounds, TypeInv', WorkInv, NEW p \in Procs,
         (p \in Closers /\ Close(p)) \/ Release(p) \/ NotifyAll(p)
  PROVE  WorkInv'
  <1> USE DEF Grounds
  <1>1. Takes({})
    BY NothingTaken DEF Close, Release, NotifyAll, slotVars, entryVars
  <1>2. CASE Close(p) \/ Release(p)
    <2>1. Moves(p, "notify", loc[p])
      BY <1>2, Stay DEF Close, Release, TypeInv
    <2> QED
      BY <1>1, <2>1, WorkTaken, WorkStays
  <1>3. CASE NotifyAll(p)
    <2>1. PICK l, v : Moves(p, l, v)
      BY <1>3, ServesMoves DEF Serves
    <2>2. current' = {}
      BY <1>3 DEF NotifyAll
    <2> QED
      BY <1>1, <2>1, <2>2, WorkTaken, WorkStays
  <1> QED
    BY <1>2, <1>3

LEMMA IdleWork ==
  ASSUME WorkInv, UNCHANGED <<pending, cancelled, queue, current, pc, loc>>
  PROVE  WorkInv'
  BY DEF WorkInv, Asleep, Alerting

LEMMA InitWork == Init => WorkInv
  BY DEF Init, WorkInv, Asleep

\* As long as nobody cancels, no blocking consumer sleeps on a current signal
\* while there is a task to take, unless a thread is in the middle of a call
\* (enqueue's notify, dequeue_blocking's estimate and wait).
THEOREM NoSleepWithoutCancel ==
  Cancellers = {} => (Spec => []NoSleepOnWork)
  <1> SUFFICES ASSUME Cancellers = {}
               PROVE  Spec => []NoSleepOnWork
    OBVIOUS
  <1>1. TypeInv /\ TypeInv' /\ SlotInv /\ LedgerInv /\ WorkInv /\ [Next]_vars => WorkInv'
    <2> SUFFICES ASSUME Grounds, TypeInv', WorkInv, [Next]_vars
                 PROVE  WorkInv'
      BY DEF Grounds
    <2>1. CASE \E p \in Producers : Enqueue(p) \/ ProducerStep(p)
      BY <2>1, CallWork, PushWork DEF ProducerStep
    <2>2. CASE \E c \in Consumers : ConsumerStep(c)
      BY <2>2, ConsumerWork DEF ConsumerStep, Polls
    <2>3. CASE (\E k \in Closers : Close(k)) \/ \E p \in Procs : Release(p) \/ NotifyAll(p)
      BY <2>3, SettleWork DEF Procs
    <2>4. CASE Expire \/ UNCHANGED vars
      BY <2>4, IdleWork DEF Expire, vars, slotVars, entryVars
    <2> QED
      BY <2>1, <2>2, <2>3, <2>4 DEF Next
  <1>2. WorkInv => NoSleepOnWork
    <2> SUFFICES ASSUME WorkInv, \A p \in Procs : Resting(p),
                        NEW c \in Consumers, Asleep(c)
                 PROVE  pending = {}
      BY DEF NoSleepOnWork
    <2>1. \A p \in Procs : ~Alerting(p)
      BY DEF Resting, Asleep, Alerting
    <2> QED
      BY <2>1 DEF WorkInv
  <1> QED
    BY <1>1, <1>2, InitWork, TypeCorrect, SlotInvariant, LedgerInvariant, PTL DEF Spec

-----------------------------------------------------------------------------
(* No Timeout producer sleeps on room. *)

\* A tenant whose entries are left as they were stays crowded.
LEMMA StillFull ==
  ASSUME NEW t \in Tenants, \A i \in Prios : queue'[t][i] = queue[t][i]
  PROVE  TenantFull(t)' <=> TenantFull(t)
  BY DEF TenantFull, TotalLen, Prios

LEMMA SamePurgeable ==
  ASSUME NEW q, NEW budget, \A x \in q : x \in Dead' <=> x \in Dead
  PROVE  Purgeable(q, budget)' = Purgeable(q, budget)
  <1>1. DeadPrefix(q)' = DeadPrefix(q)
    BY DEF DeadPrefix
  <1>2. \A h : SideScan(q \ h, budget)' = SideScan(q \ h, budget)
    BY DEF SideScan
  <1>3. SideScan(q \ DeadPrefix(q), budget)' = SideScan(q \ DeadPrefix(q), budget)
    BY <1>1 DEF SideScan
  <1> QED
    BY <1>1, <1>3 DEF Purgeable

LEMMA PurgeableThen ==
  ASSUME NEW t, NEW i, NEW q, queue'[t][i] = q
  PROVE  Purgeable(queue[t][i], FullBudget)' = Purgeable(q, FullBudget)'
  BY DEF Purgeable, DeadPrefix, SideScan

\* What it takes for a tenant to be crowded after a step.
LEMMA CrowdedThen ==
  ASSUME NEW t \in Tenants, TenantFull(t)',
         \A i \in Prios : \A q : q = queue'[t][i] =>
           /\ q # {} => Front(q) \in pending'
           /\ Purgeable(q, FullBudget)' # {} => Purgeable(q, FullBudget)' \cap pending' # {}
  PROVE  Crowded(t)'
  <1>1. ASSUME NEW i \in Prios
        PROVE  /\ queue'[t][i] # {} => Front(queue'[t][i]) \in pending'
               /\ Purgeable(queue[t][i], FullBudget)' # {} =>
                    Purgeable(queue[t][i], FullBudget)' \cap pending' # {}
    <2>1. PICK q : q = queue'[t][i]
      OBVIOUS
    <2>2. Purgeable(queue[t][i], FullBudget)' = Purgeable(q, FullBudget)'
      BY <2>1, PurgeableThen
    <2>3. /\ q # {} => Front(q) \in pending'
          /\ Purgeable(q, FullBudget)' # {} => Purgeable(q, FullBudget)' \cap pending' # {}
      BY <2>1
    <2> QED
      BY <2>1, <2>2, <2>3
  <1> QED
    BY <1>1 DEF Crowded, Front

LEMMA CrowdedKept ==
  ASSUME NEW t \in Tenants, Crowded(t),
         \A i \in Prios :
           /\ queue'[t][i] = queue[t][i] /\ queue[t][i] \in SUBSET Nat
           /\ \A x \in queue[t][i] : /\ x \in Dead' <=> x \in Dead
                                     /\ x \in pending => x \in pending'
  PROVE  Crowded(t)'
  <1>1. TenantFull(t)'
    BY StillFull DEF Crowded
  <1>2. ASSUME NEW i \in Prios, NEW q, q = queue'[t][i]
        PROVE  /\ q # {} => Front(q) \in pending'
               /\ Purgeable(q, FullBudget)' # {} => Purgeable(q, FullBudget)' \cap pending' # {}
    <2>1. q = queue[t][i] /\ q \in SUBSET Nat
      BY <1>2
    <2>2. /\ q # {} => Front(q) \in pending
          /\ Purgeable(q, FullBudget) # {} => Purgeable(q, FullBudget) \cap pending # {}
      BY <2>1 DEF Crowded
    <2>3. /\ q # {} => Front(q) \in q
          /\ Purgeable(q, FullBudget) \subseteq q
      BY <2>1, FrontInQueue, PurgeableDead
    <2>4. Purgeable(q, FullBudget)' = Purgeable(q, FullBudget)
      BY <2>1, SamePurgeable
    <2>5. \A x \in q : x \in pending => x \in pending'
      BY <2>1
    <2> QED
      BY <2>2, <2>3, <2>4, <2>5
  <1> QED
    BY <1>1, <1>2, CrowdedThen

\* Entries taken from elsewhere leave a tenant crowded.
LEMMA CrowdedTaken ==
  ASSUME TypeInv, NEW t \in Tenants, Crowded(t), NEW R, Takes(R), late' = late,
         \A i \in Prios : R \cap queue[t][i] = {}
  PROVE  Crowded(t)'
  <1>1. ASSUME NEW i \in Prios
        PROVE  queue'[t][i] = queue[t][i] /\ queue[t][i] \in SUBSET Nat
    <2>1. queue'[t][i] = queue[t][i] \ R /\ R \cap queue[t][i] = {}
      BY DEF Takes
    <2>2. queue[t][i] \in SUBSET Nat
      BY EntryFacts
    <2> QED
      BY <2>1, <2>2
  <1>2. ASSUME NEW i \in Prios, NEW x \in queue[t][i]
        PROVE  (x \in Dead' <=> x \in Dead) /\ (x \in pending => x \in pending')
    <2>1. x \notin R
      BY <1>2
    <2>2. pending' = pending \ R /\ cancelled' = cancelled \ R
      BY DEF Takes
    <2> QED
      BY <2>1, <2>2 DEF Dead
  <1> QED
    BY <1>1, <1>2, CrowdedKept

\* A tenant that lost an entry is not full.
LEMMA LosesEntry ==
  ASSUME Grounds, NEW t \in Tenants, NEW i \in Prios, NEW x \in queue[t][i],
         \A j \in Prios : queue'[t][j] \subseteq queue[t][j],
         x \notin queue'[t][i]
  PROVE  ~TenantFull(t)'
  <1> USE DEF Grounds
  <1>1. ASSUME NEW j \in Prios
        PROVE  /\ Cardinality(queue[t][j]) \in Nat /\ Cardinality(queue'[t][j]) \in Nat
               /\ Cardinality(queue'[t][j]) <= Cardinality(queue[t][j])
    BY TotalLenType, FS_Subset, FS_CardinalityType
  <1>2. Cardinality(queue'[t][i]) < Cardinality(queue[t][i])
    <2>1. IsFiniteSet(queue[t][i]) /\ queue'[t][i] \in SUBSET queue[t][i]
          /\ queue'[t][i] # queue[t][i]
      BY TotalLenType
    <2>2. Cardinality(queue'[t][i]) # Cardinality(queue[t][i])
      BY <2>1, FS_Subset
    <2> QED
      BY <1>1, <2>2
  <1>3. TotalLen(t) <= MaxPerTenant /\ MaxPerTenant \in Nat
    BY SchedulerAssumption DEF LedgerInv, TenantsBounded
  <1>4. TotalLen(t)' < TotalLen(t) /\ TotalLen(t)' \in Nat /\ TotalLen(t) \in Nat
    BY <1>1, <1>2 DEF TotalLen, Prios
  <1> QED
    BY <1>3, <1>4 DEF TenantFull

\* An entry that is not live stays marked, or its canceller on its way to mark it.
LEMMA StillMarked ==
  ASSUME EntriesMarked, NEW p \in Procs, pc[p] # "mark",
         \A q \in Procs \ {p} : pc'[q] = pc[q] /\ loc'[q] = loc[q],
         \A t \in Tenants, i \in Prios : \A x \in queue'[t][i] :
           \/ x \in pending'
           \/ x \in queue[t][i] /\ (x \in pending \cup cancelled => x \in pending' \cup cancelled')
  PROVE  EntriesMarked'
  <1> SUFFICES ASSUME NEW t \in Tenants, NEW i \in Prios, NEW x \in queue'[t][i],
                      x \notin pending' \cup cancelled'
               PROVE  \E k \in Cancellers : pc'[k] = "mark" /\ loc'[k].item = x
    BY DEF EntriesMarked
  <1>1. x \in queue[t][i] /\ x \notin pending \cup cancelled
    OBVIOUS
  <1>2. PICK k \in Cancellers : pc[k] = "mark" /\ loc[k].item = x
    BY <1>1 DEF EntriesMarked
  <1>3. k \in Procs /\ k # p
    BY <1>2 DEF Procs
  <1> QED
    BY <1>2, <1>3

LEMMA TakenMarked ==
  ASSUME TypeInv, TypeInv', EntriesMarked, NEW p \in Procs, NEW l, NEW v, Moves(p, l, v),
         pc[p] # "mark", NEW R, Takes(R)
  PROVE  EntriesMarked'
  <1>1. \A q \in Procs \ {p} : pc'[q] = pc[q] /\ loc'[q] = loc[q]
    BY PhaseSets DEF TypeInv
  <1>2. ASSUME NEW t \in Tenants, NEW i \in Prios, NEW x \in queue'[t][i]
        PROVE  x \in queue[t][i] /\ (x \in pending \cup cancelled => x \in pending' \cup cancelled')
    <2>1. queue'[t][i] = queue[t][i] \ R /\ pending' = pending \ R /\ cancelled' = cancelled \ R
      BY DEF Takes
    <2> QED
      BY <1>2, <2>1
  <1> QED
    BY <1>1, <1>2, StillMarked

\* A step keeps the invariant that wakes everybody, that is on its way to do so, or
\* that leaves the others what they wait for and gives its own process a reason to.
OthersKept(p) ==
  /\ current' \subseteq current \cup {p} /\ ~Freeing(p)
  /\ \A c \in Consumers \ {p} :
       pc[c] = "commit" /\ loc[c].item \in pending => loc[c].item \in pending'
  /\ ~SlotFree => ~SlotFree'
  /\ \A t \in Tenants : Policy[t] = "timeout" /\ Crowded(t) => Crowded(t)'
  /\ \A q \in Producers \ {p}, t \in Tenants :
       pc[q] = "admit" /\ loc[q].job.tenant = t /\ TenantFull(t)' => TenantFull(t)
OwnReason(p, l, v) ==
  \A t \in Tenants :
    p \in Producers /\ p \in current' /\ v.job.tenant = t /\ Policy[t] = "timeout" =>
      /\ l = "wait" => (\E q \in Procs \ {p} : Freeing(q)) \/ ~SlotFree' \/ Crowded(t)'
      /\ l = "admit" /\ TenantFull(t)' =>
           (\E q \in Procs \ {p} : Freeing(q)) \/ Crowded(t)'

LEMMA RoomStays ==
  ASSUME TypeInv, TypeInv', RoomInv, NEW p \in Procs, NEW l, NEW v, Moves(p, l, v),
         EntriesMarked',
         p \in Producers /\ l = "wait" => Policy[v.job.tenant] = "timeout",
         current' = {} \/ Freeing(p)' \/ (OthersKept(p) /\ OwnReason(p, l, v))
  PROVE  RoomInv'
  <1>1. /\ pc'[p] = l /\ loc'[p] = v
        /\ \A q \in Procs \ {p} : pc'[q] = pc[q] /\ loc'[q] = loc[q]
    BY PhaseSets DEF TypeInv
  <1>2. \A q \in Producers : pc'[q] = "wait" => Policy[loc'[q].job.tenant] = "timeout"
    BY <1>1 DEF RoomInv, Procs
  <1>3. ASSUME OthersKept(p)
        PROVE  \A q \in Procs \ {p} : Freeing(q) => Freeing(q)'
    BY <1>1, <1>3 DEF OthersKept, Freeing, Procs
  <1>4. ASSUME NEW q \in Producers, NEW t \in Tenants, q \in current',
               loc'[q].job.tenant = t, Policy[t] = "timeout",
               OthersKept(p), OwnReason(p, l, v), ~ \E z \in Procs : Freeing(z)'
        PROVE  /\ pc'[q] = "wait" => ~SlotFree' \/ Crowded(t)'
               /\ pc'[q] = "admit" /\ TenantFull(t)' => Crowded(t)'
    <2>1. ~ \E z \in Procs \ {p} : Freeing(z)
      BY <1>3, <1>4
    <2>2. CASE q = p
      BY <1>1, <1>4, <2>1, <2>2 DEF OwnReason
    <2>3. CASE q # p
      <3>1. /\ q \in current /\ pc'[q] = pc[q] /\ loc[q].job.tenant = t /\ q \in Procs
            /\ ~Freeing(p)
        BY <1>1, <1>4, <2>3 DEF OthersKept, Procs
      <3>2. /\ pc[q] = "wait" => ~SlotFree \/ Crowded(t)
            /\ pc[q] = "admit" /\ TenantFull(t) => Crowded(t)
        BY <1>4, <2>1, <3>1 DEF RoomInv
      <3>3. /\ ~SlotFree => ~SlotFree'
            /\ Crowded(t) => Crowded(t)'
            /\ pc[q] = "admit" /\ TenantFull(t)' => TenantFull(t)
        BY <1>4, <2>3, <3>1 DEF OthersKept
      <3> QED
        BY <3>1, <3>2, <3>3
    <2> QED
      BY <2>2, <2>3
  <1>5. ASSUME NEW q \in Producers, NEW t \in Tenants, q \in current',
               loc'[q].job.tenant = t, Policy[t] = "timeout"
        PROVE  /\ pc'[q] = "wait" =>
                    (\E z \in Procs : Freeing(z)') \/ ~SlotFree' \/ Crowded(t)'
               /\ pc'[q] = "admit" /\ TenantFull(t)' =>
                    (\E z \in Procs : Freeing(z)') \/ Crowded(t)'
    <2>1. CASE \E z \in Procs : Freeing(z)'
      BY <2>1
    <2>2. CASE ~ \E z \in Procs : Freeing(z)'
      BY <1>4, <1>5, <2>2
    <2> QED
      BY <2>1, <2>2
  <1> QED
    BY <1>2, <1>5 DEF RoomInv

\* Taking entries that no crowded tenant has and no consumer has popped disturbs
\* nobody.
LEMMA OthersTaken ==
  ASSUME Grounds, NEW p \in Procs, NEW R, Takes(R), late' = late,
         ~SlotFree => ~SlotFree',
         current' \subseteq current \cup {p}, ~Freeing(p),
         \A c \in Consumers \ {p} : pc[c] = "commit" => loc[c].item \notin R \cap pending,
         \A t \in Tenants : Policy[t] = "timeout" /\ Crowded(t) =>
           \A i \in Prios : R \cap queue[t][i] = {}
  PROVE  OthersKept(p)
  <1> USE DEF Grounds
  <1>1. \A t \in Tenants : Policy[t] = "timeout" /\ Crowded(t) => Crowded(t)'
    BY CrowdedTaken
  <1>2. \A t \in Tenants : TenantFull(t)' => TenantFull(t)
    <2> SUFFICES ASSUME NEW t \in Tenants
                 PROVE  TenantFull(t)' => TenantFull(t)
      OBVIOUS
    <2>1. \A i \in Prios : queue'[t][i] \subseteq queue[t][i]
      BY DEF Takes
    <2> QED
      BY <2>1, RoomLeft
  <1>3. pending' = pending \ R
    BY DEF Takes
  <1> QED
    BY <1>1, <1>2, <1>3 DEF OthersKept

LEMMA OthersUntouched ==
  ASSUME Grounds, NEW p \in Procs, UNCHANGED <<pending, cancelled, queue, late>>,
         ~SlotFree => ~SlotFree', current' \subseteq current \cup {p}, ~Freeing(p)
  PROVE  OthersKept(p)
  BY NothingTaken, OthersTaken

\* A step that leaves the entries alone, for a producer that does not come to wait.
LEMMA QuietRoom ==
  ASSUME Grounds, TypeInv', RoomInv, NEW p \in Procs, NEW l, NEW v, Moves(p, l, v),
         UNCHANGED <<pending, cancelled, queue, late>>, pc[p] # "mark",
         p \in Producers => l \notin {"wait", "admit"},
         \/ current' = {}
         \/ l \in {"release", "notify"}
         \/ /\ ~SlotFree => ~SlotFree'
            /\ current' \subseteq current \cup {p} /\ ~Freeing(p)
  PROVE  RoomInv'
  <1> USE DEF Grounds
  <1>1. pc'[p] = l
    BY PhaseSets DEF TypeInv
  <1>2. EntriesMarked'
    BY NothingTaken, TakenMarked DEF RoomInv
  <1>3. OwnReason(p, l, v)
    BY DEF OwnReason
  <1>4. l \in {"release", "notify"} => Freeing(p)'
    BY <1>1 DEF Freeing
  <1> QED
    BY <1>2, <1>3, <1>4, OthersUntouched, RoomStays

LEMMA BeginRoom ==
  ASSUME Grounds, TypeInv', RoomInv, NEW p \in Producers,
         Enqueue(p) \/ RetryEnqueue(p) \/ Activate(p) \/ Publish(p)
  PROVE  RoomInv'
  <1> USE DEF Grounds
  <1>1. /\ p \in Procs /\ p \notin Consumers /\ TypeOK
        /\ UNCHANGED <<pending, cancelled, queue, late, estimate>>
        /\ pc[p] \in {"idle", "wait", "activate", "publish"}
        /\ current' \subseteq current \cup {p}
    BY SchedulerAssumption
       DEF TypeInv, Procs, Enqueue, RetryEnqueue, BeginAttempt, Activate, Publish,
           slotVars, entryVars
  <1>2. \E l \in {"lock", "idle", "publish", "notify"} : \E v : Moves(p, l, v)
    <2>1. CASE Enqueue(p) \/ RetryEnqueue(p)
      BY <2>1, Zenon DEF Enqueue, RetryEnqueue, BeginAttempt, Return, Goto, Moves
    <2>2. CASE Activate(p) \/ Publish(p)
      BY <1>1, <2>2, Stay DEF Activate, Publish, AfterActivation
    <2> QED
      BY <2>1, <2>2
  <1>3. PICK l, v : l \in {"lock", "idle", "publish", "notify"} /\ Moves(p, l, v)
    BY <1>2
  <1>4. ~Freeing(p) /\ (~SlotFree => ~SlotFree')
    BY <1>1 DEF Freeing, SlotFree
  <1> QED
    BY <1>1, <1>3, <1>4, QuietRoom

\* A purge before the tenant is looked at: if it frees a slot, its notification
\* follows; if not, it takes nothing from a tenant that was crowded, and a tenant
\* it leaves full is crowded, or one of its entries is about to be marked.
LEMMA LockRoom ==
  ASSUME Grounds, TypeInv', RoomInv, NEW p \in Producers, LockForEnqueue(p)
  PROVE  RoomInv'
  <1> USE DEF Grounds
  <1>1. PICK t \in Tenants : t = loc[p].job.tenant
    BY LocFields DEF TypeInv, Procs
  <1>2. /\ p \in Procs /\ p \notin Consumers /\ TypeOK /\ pc[p] = "lock" /\ ~Freeing(p)
        /\ late' = late /\ current' = current /\ (~SlotFree => ~SlotFree')
    <2>1. estimate' = estimate
      BY DEF LockForEnqueue, slotVars
    <2> QED
      BY <2>1, SchedulerAssumption DEF TypeInv, Procs, LockForEnqueue, Freeing, SlotFree
  <1>3. CASE mode # "open"
    <2>1. Moves(p, "idle", Fresh) /\ UNCHANGED <<pending, cancelled, queue>>
      BY <1>2, <1>3, Stay DEF LockForEnqueue, slotVars
    <2> QED
      BY <1>2, <2>1, QuietRoom
  <1>4. CASE mode = "open"
    <2>1. /\ Goto(p, IF freed'[p] = {} THEN "admit" ELSE "release")
          /\ \E v : loc' = [loc EXCEPT ![p] = v]
      BY <1>4, Zenon DEF LockForEnqueue
    <2>2. CASE freed'[p] # {}
      <3>1. PICK v : Moves(p, "release", v)
        BY <2>1, <2>2 DEF Goto, Moves
      <3>2. \E R : Takes(R)
        <4>1. CASE UNCHANGED <<pending, cancelled, queue>>
          BY <4>1, NothingTaken
        <4>2. CASE \E budget : Purge(p, t, budget)
          BY <1>2, <4>2, PurgeTakes
        <4> QED
          BY <1>1, <1>4, <4>1, <4>2 DEF LockForEnqueue
      <3>3. EntriesMarked'
        BY <1>2, <3>1, <3>2, TakenMarked DEF RoomInv
      <3>4. Freeing(p)'
        BY <1>2, <3>1, PhaseSets DEF TypeInv, Freeing
      <3> QED
        BY <1>2, <3>1, <3>3, <3>4, RoomStays
    <2>3. CASE freed'[p] = {}
      <3>1. PICK v : Moves(p, "admit", v) /\ v.job.tenant = t
        <4> DEFINE w == [loc[p] EXCEPT !.wasIdle = ~HasWork(JobShard(p)), !.then = "admit",
                                       !.purged = (PurgeReason(t) = "full")]
        <4>1. loc' = [loc EXCEPT ![p] = w] /\ Goto(p, "admit")
          BY <1>1, <1>4, <2>1, <2>3 DEF LockForEnqueue
        <4>2. loc[p] \in LocType
          BY <1>2 DEF TypeOK
        <4>3. w.job.tenant = t
          BY <1>1, <4>2 DEF LocType
        <4> HIDE DEF w
        <4> QED
          BY <4>1, <4>3 DEF Goto, Moves
      <3>2. CASE PurgeReason(t) = "none"
        <4>1. UNCHANGED <<pending, cancelled, queue>>
          BY <1>1, <1>4, <3>2 DEF LockForEnqueue
        <4>2. ~TenantFull(t)
          BY <3>2 DEF PurgeReason
        <4>3. ~TenantFull(t)'
          BY <4>1, <4>2, StillFull
        <4>4. EntriesMarked'
          BY <1>2, <3>1, <4>1, NothingTaken, TakenMarked DEF RoomInv
        <4>5. OthersKept(p)
          BY <1>2, <4>1, OthersUntouched
        <4>6. OwnReason(p, "admit", v)
          BY <3>1, <4>3 DEF OwnReason
        <4> QED
          BY <1>2, <3>1, <4>4, <4>5, <4>6, RoomStays
      <3>3. CASE PurgeReason(t) # "none"
        <4>1. Purge(p, t, Budget(PurgeReason(t)))
          BY <1>1, <1>4, <3>3 DEF LockForEnqueue
        <4>2. PICK b : b = Budget(PurgeReason(t))
          OBVIOUS
        <4>3. TenantFull(t) => b = FullBudget
          BY <4>2 DEF PurgeReason, Budget
        <4>4. PICK R : /\ Takes(R) /\ freed'[p] = R \cap pending
                       /\ \A i \in Prios : Purgeable(queue[t][i], b) \subseteq R
                       /\ \A x \in R : \E i \in Prios :
                            x \in queue[t][i] /\ x \in Purgeable(queue[t][i], b)
          BY <1>2, <4>1, <4>2, PurgeTakes
        <4>5. R \cap pending = {}
          BY <2>3, <4>4
        <4>6. Crowded(t) => R = {}
          <5> SUFFICES ASSUME Crowded(t), NEW x \in R
                       PROVE  FALSE
            OBVIOUS
          <5>1. PICK i \in Prios : x \in Purgeable(queue[t][i], b)
            BY <4>4
          <5>2. b = FullBudget
            BY <4>3 DEF Crowded
          <5>3. Purgeable(queue[t][i], b) \cap pending # {}
            BY <5>1, <5>2 DEF Crowded
          <5> QED
            BY <4>4, <4>5, <5>3
        <4>7. \A z \in Tenants : Crowded(z) => \A i \in Prios : R \cap queue[z][i] = {}
          <5> SUFFICES ASSUME NEW z \in Tenants, Crowded(z), NEW i \in Prios,
                              NEW x \in R, x \in queue[z][i]
                       PROVE  FALSE
            OBVIOUS
          <5>1. z = t
            BY <4>4, OneQueue
          <5> QED
            BY <4>6, <5>1
        <4>8. EntriesMarked'
          BY <1>2, <3>1, <4>4, TakenMarked DEF RoomInv
        <4>9. OthersKept(p)
          BY <1>2, <4>4, <4>5, <4>7, OthersTaken
        <4>10. ASSUME TenantFull(t)', ~ \E q \in Procs \ {p} : Freeing(q)
               PROVE  Crowded(t)'
          <5>1. \A i \in Prios : queue'[t][i] = queue[t][i] \ R
            BY <4>4 DEF Takes
          <5>2. R = {}
            <6> SUFFICES ASSUME NEW x \in R
                         PROVE  FALSE
              OBVIOUS
            <6>1. PICK i \in Prios : x \in queue[t][i]
              BY <4>4
            <6>2. x \notin queue'[t][i] /\ \A j \in Prios : queue'[t][j] \subseteq queue[t][j]
              BY <5>1
            <6> QED
              BY <4>10, <6>1, <6>2, LosesEntry
          <5>3. \A i \in Prios : queue'[t][i] = queue[t][i]
            BY <5>1, <5>2
          <5>4. TenantFull(t) /\ b = FullBudget
            BY <4>3, <4>10, <5>3, StillFull
          <5>5. ASSUME NEW i \in Prios, queue[t][i] # {}
                PROVE  Front(queue[t][i]) \in pending
            <6>1. PICK q \in SUBSET Nat : q = queue[t][i] /\ q # {}
              BY <5>5, EntryFacts
            <6>2. Front(q) \in q /\ \A y \in q : Front(q) <= y
              BY <6>1, FrontInQueue
            <6>3. Front(q) \notin Dead
              <7>1. DeadPrefix(q) = {}
                BY <4>4, <5>2, <6>1 DEF Purgeable
              <7>2. \A y \in q : y <= Front(q) => y = Front(q)
                BY <6>1, <6>2
              <7> QED
                BY <6>2, <7>1, <7>2 DEF DeadPrefix
            <6>4. Front(q) \in pending \/ \E k \in Cancellers : pc[k] = "mark"
              BY <6>1, <6>2, <6>3 DEF RoomInv, EntriesMarked, Dead
            <6>5. \A k \in Cancellers : k \in Procs /\ k # p
              BY SchedulerAssumption DEF Procs
            <6>6. Front(q) \in pending
              BY <4>10, <6>4, <6>5 DEF Freeing
            <6> QED
              BY <6>1, <6>6
          <5>6. ASSUME NEW i \in Prios
                PROVE  Purgeable(queue[t][i], FullBudget) = {}
            BY <4>4, <5>2, <5>4
          <5>7. Crowded(t)
            BY <5>4, <5>5, <5>6 DEF Crowded
          <5> QED
            BY <1>2, <4>4, <5>2, <5>7, CrowdedTaken
        <4>11. OwnReason(p, "admit", v)
          BY <3>1, <4>10 DEF OwnReason
        <4> QED
          BY <1>2, <3>1, <4>8, <4>9, <4>11, RoomStays
      <3> QED
        BY <3>2, <3>3
    <2> QED
      BY <2>2, <2>3
  <1> QED
    BY <1>3, <1>4

\* Who finds the tenant full waits for the reason it was full; who finds no slot
\* waits for one.
LEMMA RefuseWaits ==
  ASSUME TypeInv, NEW p \in Procs, Refuse(p)
  PROVE  \/ Moves(p, "idle", Fresh)
         \/ /\ Policy[loc[p].job.tenant] = "timeout"
            /\ \E v : Moves(p, "wait", v) /\ v.job = loc[p].job
  <1> DEFINE w == [Fresh EXCEPT !.job = loc[p].job]
  <1>1. w.job = loc[p].job
    BY DEF Fresh
  <1>2. CASE Return(p)
    BY <1>2, Stay DEF TypeInv
  <1>3. CASE /\ Policy[loc[p].job.tenant] = "timeout"
             /\ Goto(p, "wait") /\ loc' = [loc EXCEPT ![p] = w]
    BY <1>1, <1>3 DEF Goto, Moves
  <1> QED
    BY <1>2, <1>3 DEF Refuse

LEMMA AdmitRoom ==
  ASSUME Grounds, TypeInv', RoomInv, NEW p \in Producers, Admit(p)
  PROVE  RoomInv'
  <1> USE DEF Grounds
  <1>1. PICK t \in Tenants : t = loc[p].job.tenant
    BY LocFields DEF TypeInv, Procs
  <1>2. /\ p \in Procs /\ p \notin Consumers /\ TypeOK /\ pc[p] = "admit" /\ ~Freeing(p)
        /\ UNCHANGED <<pending, cancelled, queue, late>> /\ current' = current
        /\ (~SlotFree => ~SlotFree')
    BY SchedulerAssumption
       DEF TypeInv, Procs, Admit, Freeing, slotVars, entryVars, SlotFree
  <1>3. CASE ~TenantFull(t)
    <2>1. Moves(p, "reserve", loc[p])
      BY <1>1, <1>2, <1>3, Stay DEF Admit
    <2> QED
      BY <1>2, <2>1, QuietRoom
  <1>4. CASE TenantFull(t)
    <2>1. Refuse(p)
      BY <1>1, <1>4 DEF Admit
    <2>2. CASE Moves(p, "idle", Fresh)
      BY <1>2, <2>2, QuietRoom
    <2>3. CASE /\ Policy[loc[p].job.tenant] = "timeout"
               /\ \E v : Moves(p, "wait", v) /\ v.job = loc[p].job
      <3>1. PICK v : Moves(p, "wait", v) /\ v.job = loc[p].job
        BY <2>3
      <3>2. EntriesMarked'
        BY <1>2, <3>1, NothingTaken, TakenMarked DEF RoomInv
      <3>3. OthersKept(p)
        BY <1>2, OthersUntouched
      <3>4. p \in current => (\E q \in Procs \ {p} : Freeing(q)) \/ Crowded(t)'
        <4>1. p \in current => (\E q \in Procs : Freeing(q)) \/ Crowded(t)
          BY <1>1, <1>2, <1>4, <2>3 DEF RoomInv
        <4>2. Crowded(t) => Crowded(t)'
          BY <1>1, <2>3, <3>3 DEF OthersKept
        <4> QED
          BY <1>2, <4>1, <4>2
      <3>5. OwnReason(p, "wait", v)
        BY <1>1, <1>2, <3>1, <3>4 DEF OwnReason
      <3> QED
        BY <1>2, <2>3, <3>1, <3>2, <3>3, <3>5, RoomStays
    <2> QED
      BY <1>2, <2>1, <2>2, <2>3, RefuseWaits
  <1> QED
    BY <1>3, <1>4

\* The drop policies take entries of tenants nobody waits for.
LEMMA DropRoom ==
  ASSUME Grounds, TypeInv', RoomInv, NEW p \in Producers, AdmitByDropping(p)
  PROVE  RoomInv'
  <1> USE DEF Grounds
  <1>1. PICK t \in Tenants : t = loc[p].job.tenant
    BY LocFields DEF TypeInv, Procs
  <1>2. /\ p \in Procs /\ p \notin Consumers /\ TypeOK /\ pc[p] = "admit" /\ ~Freeing(p)
        /\ late' = late /\ current' \subseteq current \cup {p} /\ (~SlotFree => ~SlotFree')
        /\ Policy[t] # "timeout"
    BY <1>1, SchedulerAssumption
       DEF TypeInv, Procs, AdmitByDropping, Freeing, SlotFree
  <1>3. PICK R : Takes(R) /\ \A x \in R : \E i \in Prios : x \in queue[t][i]
    BY <1>1, DropTakes
  <1>4. \E l \in {"reserve", "push", "idle"} : \E v : Moves(p, l, v)
    <2>1. CASE Refuse(p)
      BY <1>1, <1>2, <2>1, RefuseWaits
    <2>2. CASE ~Refuse(p)
      <3>1. \/ Goto(p, "reserve") /\ UNCHANGED loc
            \/ Goto(p, "push") /\ UNCHANGED loc
        BY <2>2 DEF AdmitByDropping
      <3> QED
        BY <1>2, <3>1, Stay
    <2> QED
      BY <2>1, <2>2
  <1>5. PICK l, v : l \in {"reserve", "push", "idle"} /\ Moves(p, l, v)
    BY <1>4
  <1>6. \A c \in Consumers \ {p} : pc[c] = "commit" => loc[c].item \notin R
    BY <1>3, PoppedOut
  <1>7. ASSUME NEW z \in Tenants, Policy[z] = "timeout", NEW i \in Prios
        PROVE  R \cap queue[z][i] = {}
    <2>1. ASSUME NEW x \in R, x \in queue[z][i]
          PROVE  FALSE
      BY <1>2, <1>3, <1>7, <2>1, OneQueue
    <2> QED
      BY <2>1
  <1>8. EntriesMarked'
    BY <1>2, <1>3, <1>5, TakenMarked DEF RoomInv
  <1>9. OthersKept(p)
    BY <1>2, <1>3, <1>6, <1>7, OthersTaken
  <1>10. OwnReason(p, l, v)
    BY <1>5 DEF OwnReason
  <1> QED
    BY <1>2, <1>5, <1>8, <1>9, <1>10, RoomStays

LEMMA ReserveRoom ==
  ASSUME Grounds, TypeInv', RoomInv, NEW p \in Producers, Reserve(p)
  PROVE  RoomInv'
  <1> USE DEF Grounds
  <1>1. PICK t \in Tenants : t = loc[p].job.tenant
    BY LocFields DEF TypeInv, Procs
  <1>2. /\ p \in Procs /\ p \notin Consumers /\ TypeOK /\ pc[p] = "reserve" /\ ~Freeing(p)
        /\ late' = late /\ current' = current
    BY SchedulerAssumption DEF TypeInv, Procs, Reserve, Freeing
  <1>3. ~TenantFull(t)
    BY <1>1, <1>2 DEF LedgerInv, TenantsBounded, Admitted
  <1>4. CASE SlotFree
    <2>1. Moves(p, "push", loc[p]) /\ UNCHANGED <<pending, cancelled, queue>>
      BY <1>2, <1>4, Stay DEF Reserve
    <2> QED
      BY <1>2, <1>4, <2>1, QuietRoom
  <1>5. CASE ~SlotFree
    <2>1. ~SlotFree'
      <3>1. estimate' = estimate
        BY <1>5 DEF Reserve, slotVars
      <3> QED
        BY <1>5, <3>1 DEF SlotFree
    <2>2. \E R : /\ Takes(R)
                 /\ R = {} \/ freed'[p] = R \cap pending
                 /\ \A x \in R : \E i \in Prios : x \in queue[t][i]
      <3>1. CASE loc[p].purged
        <4>1. Takes({})
          BY <1>5, <3>1, NothingTaken DEF Reserve, slotVars
        <4> QED
          BY <4>1
      <3>2. CASE ~loc[p].purged
        <4>1. Purge(p, t, FullBudget)
          BY <1>1, <1>5, <3>2 DEF Reserve
        <4>2. PICK R : /\ Takes(R) /\ freed'[p] = R \cap pending
                       /\ \A x \in R : \E i \in Prios :
                            x \in queue[t][i] /\ x \in Purgeable(queue[t][i], FullBudget)
          BY <1>2, <4>1, PurgeTakes
        <4> QED
          BY <4>2
      <3> QED
        BY <3>1, <3>2
    <2>3. PICK R : /\ Takes(R)
                   /\ R = {} \/ freed'[p] = R \cap pending
                   /\ \A x \in R : \E i \in Prios : x \in queue[t][i]
      BY <2>2
    <2>4. \/ Refuse(p) /\ R \cap pending = {}
          \/ \E v : Moves(p, "release", v)
      <3>1. CASE loc[p].purged
        BY <1>5, <2>3, <3>1 DEF Reserve, slotVars, Takes, Refuse
      <3>2. CASE ~loc[p].purged
        <4>1. \/ Refuse(p) /\ freed'[p] = {}
              \/ Goto(p, "release") /\ \E v : loc' = [loc EXCEPT ![p] = v]
          BY <1>5, <3>2, Zenon DEF Reserve
        <4> QED
          BY <2>3, <4>1 DEF Goto, Moves
      <3> QED
        BY <3>1, <3>2
    <2>5. CASE \E v : Moves(p, "release", v)
      <3>1. PICK v : Moves(p, "release", v)
        BY <2>5
      <3>2. EntriesMarked'
        BY <1>2, <2>3, <3>1, TakenMarked DEF RoomInv
      <3>3. Freeing(p)'
        BY <1>2, <3>1, PhaseSets DEF TypeInv, Freeing
      <3> QED
        BY <1>2, <3>1, <3>2, <3>3, RoomStays
    <2>6. CASE Refuse(p) /\ R \cap pending = {}
      <3>1. PICK l, v : l \in {"idle", "wait"} /\
              Moves(p, l, v) /\ (l = "wait" => /\ Policy[loc[p].job.tenant] = "timeout"
                                               /\ v.job = loc[p].job)
        BY <1>2, <2>6, RefuseWaits
      <3>2. EntriesMarked'
        BY <1>2, <2>3, <3>1, TakenMarked DEF RoomInv
      <3>3. ASSUME NEW z \in Tenants, Crowded(z), NEW i \in Prios
            PROVE  R \cap queue[z][i] = {}
        <4>1. ASSUME NEW x \in R, x \in queue[z][i]
              PROVE  FALSE
          <5>1. z = t
            BY <2>3, <4>1, OneQueue
          <5> QED
            BY <1>3, <3>3, <5>1 DEF Crowded
        <4> QED
          BY <4>1
      <3>4. OthersKept(p)
        BY <1>2, <2>1, <2>3, <2>6, <3>3, OthersTaken
      <3>5. OwnReason(p, l, v)
        BY <2>1, <3>1 DEF OwnReason
      <3> QED
        BY <1>2, <3>1, <3>2, <3>4, <3>5, RoomStays
    <2> QED
      BY <2>4, <2>5, <2>6
  <1> QED
    BY <1>4, <1>5

\* A push fills a tenant that had room, while it alone holds the tenant's shard.
LEMMA PushRoom ==
  ASSUME Grounds, TypeInv', RoomInv, NEW p \in Producers, Push(p)
  PROVE  RoomInv'
  <1> USE DEF Grounds
  <1> DEFINE r == loc[p].job
             x == Len(task) + 1
  <1>1. PICK t \in Tenants : t = loc[p].job.tenant
    BY LocFields DEF TypeInv, Procs
  <1>2. /\ p \in Procs /\ p \notin Consumers /\ TypeOK /\ pc[p] = "push" /\ ~Freeing(p)
        /\ UNCHANGED <<late, current, estimate, cancelled>>
    BY SchedulerAssumption DEF TypeInv, Procs, Push, Freeing
  <1>3. /\ pending' = pending \cup {x}
        /\ \A z \in Tenants, i \in Prios :
             queue'[z][i] = IF z = r.tenant /\ i = r.prio
                            THEN queue[z][i] \cup {x} ELSE queue[z][i]
        /\ \E l \in {"idle", "activate", "notify"} : \E v : Moves(p, l, v)
    BY PushEffect
  <1>4. PICK l, v : l \in {"idle", "activate", "notify"} /\ Moves(p, l, v)
    BY <1>3
  <1> HIDE DEF x
  <1>5. ~TenantFull(t)
    BY <1>1, <1>2 DEF LedgerInv, TenantsBounded, Admitted
  <1>6. EntriesMarked'
    <2>1. \A q \in Procs \ {p} : pc'[q] = pc[q] /\ loc'[q] = loc[q]
      BY <1>2, <1>4, PhaseSets DEF TypeInv
    <2>2. \A z \in Tenants, i \in Prios : \A y \in queue'[z][i] :
            y \in pending' \/ y \in queue[z][i]
      BY <1>3
    <2> QED
      BY <1>2, <1>3, <2>1, <2>2, StillMarked DEF RoomInv
  <1>7. ASSUME NEW z \in Tenants, z # t
        PROVE  \A i \in Prios : queue'[z][i] = queue[z][i] /\ queue[z][i] \in SUBSET Nat
    <2>1. \A i \in Prios : queue[z][i] \in SUBSET Nat
      BY EntryFacts
    <2> QED
      BY <1>1, <1>3, <1>7, <2>1
  <1>8. ASSUME NEW z \in Tenants, Crowded(z)
        PROVE  Crowded(z)'
    <2>1. z # t
      BY <1>5, <1>8 DEF Crowded
    <2>2. \A y : (y \in Dead' <=> y \in Dead) /\ (y \in pending => y \in pending')
      BY <1>2, <1>3 DEF Dead
    <2> QED
      BY <1>7, <1>8, <2>1, <2>2, CrowdedKept
  <1>9. ASSUME NEW q \in Producers \ {p}, NEW z \in Tenants, pc[q] = "admit",
               loc[q].job.tenant = z, TenantFull(z)'
        PROVE  TenantFull(z)
    <2>1. z # t
      <3> SUFFICES ASSUME z = t
                   PROVE  FALSE
        OBVIOUS
      <3>1. /\ q \in Procs /\ Locking(q) /\ Locking(p)
            /\ HeldShard(q) = ShardOf(t) /\ HeldShard(p) = ShardOf(t)
        BY <1>1, <1>2, <1>9 DEF Procs, Locking, HeldShard, JobShard
      <3> QED
        BY <1>2, <1>9, <3>1, Alone
    <2> QED
      BY <1>7, <1>9, <2>1, StillFull
  <1>10. OthersKept(p)
    BY <1>2, <1>3, <1>8, <1>9 DEF OthersKept, SlotFree
  <1>11. OwnReason(p, l, v)
    BY <1>4 DEF OwnReason
  <1> QED
    BY <1>2, <1>4, <1>6, <1>10, <1>11, RoomStays

\* A cancel ends with a notification from the moment it has taken its task.
LEMMA CancelRoom ==
  ASSUME Grounds, TypeInv', RoomInv, NEW k \in Cancellers, CancelTake(k) \/ CancelMark(k)
  PROVE  RoomInv'
  <1> USE DEF Grounds
  <1>1. k \in Procs /\ k \notin Producers /\ k \notin Consumers /\ TypeOK /\ queue' = queue
    BY SchedulerAssumption DEF TypeInv, Procs, CancelTake, CancelMark, entryVars
  <1>2. CASE CancelTake(k)
    <2>1. PICK x \in pending : pending' = pending \ {x} /\ loc' = [loc EXCEPT ![k].item = x]
      BY <1>2 DEF CancelTake
    <2> DEFINE v == [loc[k] EXCEPT !.item = x]
    <2>2. Moves(k, "mark", v) /\ cancelled' = cancelled /\ pc[k] = "idle" /\ v.item = x
      <3>1. loc[k] \in LocType
        BY <1>1 DEF TypeOK
      <3>2. v.item = x
        BY <3>1 DEF LocType
      <3> QED
        BY <1>2, <2>1, <3>2 DEF CancelTake, Goto, Moves
    <2> HIDE DEF v
    <2>3. /\ pc'[k] = "mark" /\ loc'[k] = v
          /\ \A q \in Procs \ {k} : pc'[q] = pc[q] /\ loc'[q] = loc[q]
      BY <1>1, <2>2, PhaseSets DEF TypeInv
    <2>4. EntriesMarked'
      <3> SUFFICES ASSUME NEW t \in Tenants, NEW i \in Prios, NEW y \in queue[t][i],
                          y \notin pending' \cup cancelled'
                   PROVE  \E c \in Cancellers : pc'[c] = "mark" /\ loc'[c].item = y
        BY <1>1 DEF EntriesMarked
      <3>1. CASE y = x
        BY <2>2, <2>3, <3>1
      <3>2. CASE y # x
        <4>1. PICK c \in Cancellers : pc[c] = "mark" /\ loc[c].item = y
          BY <2>1, <2>2, <3>2 DEF RoomInv, EntriesMarked
        <4>2. c # k /\ c \in Procs
          BY <2>2, <4>1 DEF Procs
        <4> QED
          BY <2>3, <4>1, <4>2
      <3> QED
        BY <3>1, <3>2
    <2>5. Freeing(k)'
      BY <2>3 DEF Freeing
    <2> QED
      BY <1>1, <2>2, <2>4, <2>5, RoomStays
  <1>3. CASE CancelMark(k)
    <2>1. /\ Moves(k, "release", loc[k])
          /\ pending' = pending /\ cancelled' = cancelled \cup {loc[k].item}
      BY <1>1, <1>3, Stay DEF CancelMark
    <2>2. /\ pc'[k] = "release" /\ loc'[k] = loc[k]
          /\ \A q \in Procs \ {k} : pc'[q] = pc[q] /\ loc'[q] = loc[q]
      BY <1>1, <2>1, PhaseSets DEF TypeInv
    <2>3. EntriesMarked'
      <3> SUFFICES ASSUME NEW t \in Tenants, NEW i \in Prios, NEW y \in queue[t][i],
                          y \notin pending' \cup cancelled'
                   PROVE  \E c \in Cancellers : pc'[c] = "mark" /\ loc'[c].item = y
        BY <1>1 DEF EntriesMarked
      <3>1. PICK c \in Cancellers : pc[c] = "mark" /\ loc[c].item = y
        BY <2>1 DEF RoomInv, EntriesMarked
      <3>2. c # k /\ c \in Procs
        BY <2>1, <3>1 DEF Procs
      <3> QED
        BY <2>2, <3>1, <3>2
    <2>4. Freeing(k)'
      BY <2>2 DEF Freeing
    <2> QED
      BY <1>1, <2>1, <2>3, <2>4, RoomStays
  <1> QED
    BY <1>2, <1>3

LEMMA SettleRoom ==
  ASSUME Grounds, TypeInv', RoomInv, NEW p \in Procs,
         (p \in Closers /\ Close(p)) \/ Release(p) \/ NotifyAll(p)
  PROVE  RoomInv'
  <1> USE DEF Grounds
  <1>1. /\ UNCHANGED <<pending, cancelled, queue, late>> /\ pc[p] # "mark"
        /\ TypeOK /\ TypeOK'
    BY DEF Close, Release, NotifyAll, slotVars, entryVars, TypeInv
  <1>2. CASE Close(p) \/ Release(p)
    <2>1. Moves(p, "notify", loc[p])
      BY <1>2, Stay DEF Close, Release, TypeInv
    <2> QED
      BY <1>1, <2>1, QuietRoom
  <1>3. CASE NotifyAll(p)
    <2>1. PICK l, v : l \in {"idle", loc[p].then} /\ Moves(p, l, v)
      BY <1>1, <1>3, Stay DEF NotifyAll
    <2>2. l # "wait"
      <3>1. loc[p].then \in {"idle", "admit", "reserve", "weigh", "leave"}
        BY <1>1 DEF TypeOK, LocType
      <3> QED
        BY <2>1, <3>1
    <2>3. current' = {}
      BY <1>3 DEF NotifyAll
    <2>4. EntriesMarked'
      BY <1>1, <2>1, NothingTaken, TakenMarked DEF RoomInv
    <2> QED
      BY <2>1, <2>2, <2>3, <2>4, RoomStays
  <1> QED
    BY <1>2, <1>3

\* The rounds of the consumers.
LEMMA PollRoom ==
  ASSUME Grounds, TypeInv', RoomInv, NEW c \in Consumers, Polls(c)
  PROVE  RoomInv'
  <1> USE DEF Grounds
  <1>1. /\ c \in Procs /\ c \notin Producers /\ TypeOK
        /\ UNCHANGED <<pending, cancelled, queue, late, estimate>>
        /\ current' \subseteq current \cup {c}
        /\ pc[c] \notin {"mark", "release", "notify", "commit"}
    BY SchedulerAssumption
       DEF TypeInv, Procs, Polls, Observe, EnterTryDequeue, PopShard, LockForDequeue,
           NextLevel, LeaveShard, PutBackShard, NoTask, Doze, WakeUp, slotVars, entryVars
  <1>2. PICK l, v : Moves(c, l, v)
    BY <1>1, PollMoves
  <1>3. ~Freeing(c) /\ (~SlotFree => ~SlotFree')
    BY <1>1 DEF Freeing, SlotFree
  <1> QED
    BY <1>1, <1>2, <1>3, QuietRoom

\* The front of a crowded tenant's queue is live: a visit that drops entries of it
\* frees a slot.
LEMMA VisitRoom ==
  ASSUME Grounds, TypeInv', RoomInv, NEW c \in Consumers, Visit(c)
  PROVE  RoomInv'
  <1> USE DEF Grounds
  <1>1. /\ c \in Procs /\ c \notin Producers /\ pc[c] = "scan" /\ ~Freeing(c)
        /\ late' = late /\ current' = current /\ (~SlotFree => ~SlotFree')
    BY SchedulerAssumption DEF Procs, Visit, Freeing, SlotFree
  <1>2. PICK t \in Tenants, i \in Prios :
          LET R == DeadPrefix(queue[t][i])
          IN  /\ Takes(R)
              /\ \/ R \cap pending = {} /\ \E v : Moves(c, "weigh", v)
                 \/ \E v : Moves(c, "release", v)
    BY VisitTakes
  <1>3. PICK R : R = DeadPrefix(queue[t][i])
    OBVIOUS
  <1>4. PICK l, v :
          /\ l \in {"weigh", "release"}
          /\ Moves(c, l, v) /\ (l = "weigh" => R \cap pending = {})
    BY <1>2, <1>3
  <1>5. EntriesMarked'
    BY <1>1, <1>2, <1>4, TakenMarked DEF RoomInv
  <1>6. CASE l = "release"
    <2>1. Freeing(c)'
      BY <1>1, <1>4, <1>6, PhaseSets DEF TypeInv, Freeing
    <2> QED
      BY <1>1, <1>4, <1>5, <2>1, RoomStays
  <1>7. CASE l = "weigh"
    <2>1. PICK q \in SUBSET Nat : q = queue[t][i]
      BY EntryFacts
    <2>2. R \subseteq q
      BY <1>3, <2>1, PurgeableDead
    <2>3. R # {} => q # {} /\ Front(q) \in R
      <3> SUFFICES ASSUME NEW x \in R
                   PROVE  q # {} /\ Front(q) \in R
        OBVIOUS
      <3>1. Front(q) \in q /\ \A y \in q : Front(q) <= y
        BY <2>2, FrontInQueue
      <3>2. \A y \in q : y <= Front(q) => y <= x
        BY <2>1, <2>2, <3>1
      <3> QED
        BY <1>3, <2>1, <3>1, <3>2 DEF DeadPrefix
    <2>4. ASSUME NEW z \in Tenants, Crowded(z), NEW j \in Prios
          PROVE  R \cap queue[z][j] = {}
      <3> SUFFICES ASSUME NEW x \in R, x \in queue[z][j]
                   PROVE  FALSE
        OBVIOUS
      <3>1. z = t /\ j = i
        BY <2>1, <2>2, OneQueue
      <3>2. Front(q) \in pending
        BY <2>1, <2>3, <2>4, <3>1 DEF Crowded
      <3> QED
        BY <1>4, <1>7, <2>3, <3>2
    <2>5. OthersKept(c)
      BY <1>1, <1>2, <1>3, <1>4, <1>7, <2>4, OthersTaken
    <2>6. OwnReason(c, l, v)
      BY <1>1 DEF OwnReason
    <2> QED
      BY <1>1, <1>4, <1>5, <2>5, <2>6, RoomStays
  <1> QED
    BY <1>4, <1>6, <1>7

\* What a consumer pops from a crowded tenant is live, and its commit releases a
\* slot.
LEMMA WeighRoom ==
  ASSUME Grounds, TypeInv', RoomInv, NEW c \in Consumers, Weigh(c)
  PROVE  RoomInv'
  <1> USE DEF Grounds
  <1> DEFINE i == loc[c].level
             t == Head(ring[loc[c].shard][i])
             x == Front(queue[t][i])
             w == [loc[c] EXCEPT !.item = x]
  <1>1. /\ c \in Procs /\ c \notin Producers /\ pc[c] = "weigh" /\ ~Freeing(c) /\ TypeOK
        /\ t \in Tenants /\ i \in Prios
        /\ UNCHANGED <<pending, cancelled, late, estimate, current>>
    <2>1. pc[c] = "weigh" /\ UNCHANGED <<pending, cancelled, late, estimate, current>>
      BY DEF Weigh, slotVars
    <2> QED
      BY <2>1, AtTheRing DEF Freeing, TypeInv
  <1>2. CASE queue' = queue /\ Moves(c, "scan", loc[c])
    BY <1>1, <1>2, QuietRoom DEF SlotFree
  <1>3. CASE /\ queue[t][i] # {}
             /\ \A z \in Tenants, j \in Prios :
                  queue'[z][j] = IF z = t /\ j = i THEN queue[z][j] \ {x} ELSE queue[z][j]
             /\ Moves(c, "commit", w)
    <2>1. w.item = x
      BY <1>1 DEF TypeOK, LocType
    <2>2. Crowded(t) => x \in pending
      BY <1>1, <1>3 DEF Crowded
    <2> HIDE DEF w, x, t, i
    <2>3. /\ pc'[c] = "commit" /\ loc'[c].item = x
          /\ \A q \in Procs \ {c} : pc'[q] = pc[q] /\ loc'[q] = loc[q]
      BY <1>1, <1>3, <2>1, PhaseSets DEF TypeInv
    <2>4. \A z \in Tenants, j \in Prios : queue'[z][j] \subseteq queue[z][j]
      BY <1>3
    <2>5. EntriesMarked'
      BY <1>1, <2>3, <2>4, StillMarked DEF RoomInv
    <2>6. CASE x \in pending
      <3>1. Freeing(c)'
        BY <1>1, <2>3, <2>6 DEF Freeing
      <3> QED
        BY <1>1, <1>3, <2>5, <3>1, RoomStays
    <2>7. CASE x \notin pending
      <3>1. ASSUME NEW z \in Tenants, Crowded(z)
            PROVE  Crowded(z)'
        <4>1. \A j \in Prios : queue'[z][j] = queue[z][j] /\ queue[z][j] \in SUBSET Nat
          <5>1. \A j \in Prios : queue[z][j] \in SUBSET Nat
            BY EntryFacts
          <5> QED
            BY <1>3, <2>2, <2>7, <3>1, <5>1
        <4>2. \A y : (y \in Dead' <=> y \in Dead) /\ (y \in pending => y \in pending')
          BY <1>1 DEF Dead
        <4> QED
          BY <3>1, <4>1, <4>2, CrowdedKept
      <3>2. \A z \in Tenants : TenantFull(z)' => TenantFull(z)
        BY <2>4, RoomLeft
      <3>3. OthersKept(c)
        BY <1>1, <3>1, <3>2 DEF OthersKept, SlotFree
      <3>4. OwnReason(c, "commit", w)
        BY <1>1 DEF OwnReason
      <3> QED
        BY <1>1, <1>3, <2>5, <3>3, <3>4, RoomStays
    <2> QED
      BY <2>6, <2>7
  <1> QED
    BY <1>2, <1>3, WeighEffect

LEMMA CommitRoom ==
  ASSUME Grounds, TypeInv', RoomInv, NEW c \in Consumers, Commit(c)
  PROVE  RoomInv'
  <1> USE DEF Grounds
  <1>1. /\ c \in Procs /\ c \notin Producers /\ pc[c] = "commit"
        /\ UNCHANGED <<late, estimate, current>>
    BY SchedulerAssumption DEF Procs, Commit
  <1>2. Takes({loc[c].item})
    BY CommitTakes
  <1>a. PICK l \in {"release", "scan"} :
          (\E v : Moves(c, l, v)) /\ (l = "scan" => loc[c].item \notin pending)
    BY CommitTakes
  <1>3. PICK v : l \in {"release", "scan"} /\ Moves(c, l, v)
                   /\ (l = "scan" => loc[c].item \notin pending)
    BY <1>a
  <1>4. EntriesMarked'
    BY <1>1, <1>2, <1>3, TakenMarked DEF RoomInv
  <1>5. CASE l = "release"
    <2>1. Freeing(c)'
      BY <1>1, <1>3, <1>5, PhaseSets DEF TypeInv, Freeing
    <2> QED
      BY <1>1, <1>3, <1>4, <2>1, RoomStays
  <1>6. CASE l = "scan"
    <2>1. ~Freeing(c)
      BY <1>1, <1>3, <1>6 DEF Freeing
    <2>2. \A z \in Tenants, j \in Prios : loc[c].item \notin queue[z][j]
      BY <1>1, PoppedOut
    <2>3. \A z \in Tenants, j \in Prios : {loc[c].item} \cap queue[z][j] = {}
      BY <2>2
    <2>4. OthersKept(c)
      BY <1>1, <1>2, <1>3, <1>6, <2>1, <2>3, OthersTaken DEF SlotFree
    <2>5. OwnReason(c, l, v)
      BY <1>1 DEF OwnReason
    <2> QED
      BY <1>1, <1>3, <1>4, <2>4, <2>5, RoomStays
  <1> QED
    BY <1>3, <1>5, <1>6

\* When one more entry dies, what was purgeable is, and what was not is the entry's
\* doing.
LEMMA LatePurgeable ==
  ASSUME NEW q \in SUBSET Nat, IsFiniteSet(q), NEW x, Dead' = Dead \cup {x}
  PROVE  /\ Purgeable(q, FullBudget) \subseteq Purgeable(q, FullBudget)'
         /\ Purgeable(q, FullBudget) = {} /\ Purgeable(q, FullBudget)' # {}
              => x \in Purgeable(q, FullBudget)'
  <1>1. PICK b \in Nat : b = FullBudget
    BY SchedulerAssumption
  <1>2. PICK old : old = DeadPrefix(q)
    OBVIOUS
  <1>3. PICK new : new = DeadPrefix(q)'
    OBVIOUS
  <1> DEFINE Below(h, y) == {z \in q \ h : z < y}
  <1>4. /\ \A y : y \in old <=> y \in q /\ \A z \in q : z <= y => z \in Dead
        /\ \A y : y \in new <=> y \in q /\ \A z \in q : z <= y => z \in Dead'
    BY <1>2, <1>3 DEF DeadPrefix
  <1>5. \A y : y \in Purgeable(q, FullBudget) <=>
              y \in old \/ (y \in q \ old /\ y \in Dead /\ Cardinality(Below(old, y)) < b)
    BY <1>1, <1>2 DEF Purgeable, SideScan
  <1>6. \A y : y \in Purgeable(q, FullBudget)' <=>
              y \in new \/ (y \in q \ new /\ y \in Dead' /\ Cardinality(Below(new, y)) < b)
    BY <1>1, <1>3 DEF Purgeable, SideScan
  <1>7. \A h, y : IsFiniteSet(Below(h, y)) /\ Cardinality(Below(h, y)) \in Nat
    <2> SUFFICES ASSUME NEW h, NEW y
                 PROVE  IsFiniteSet(Below(h, y)) /\ Cardinality(Below(h, y)) \in Nat
      OBVIOUS
    <2>1. Below(h, y) \in SUBSET q
      OBVIOUS
    <2> HIDE DEF Below
    <2> QED
      BY <2>1, FS_Subset, FS_CardinalityType
  <1>8. old \subseteq new
    BY <1>4
  <1>9. ASSUME NEW y
        PROVE  Cardinality(Below(new, y)) <= Cardinality(Below(old, y))
    <2>1. Below(new, y) \in SUBSET Below(old, y)
      BY <1>8
    <2> HIDE DEF Below
    <2> QED
      BY <1>7, <2>1, FS_Subset
  <1>10. ASSUME Purgeable(q, FullBudget) = {}, NEW y \in Purgeable(q, FullBudget)'
         PROVE  x \in Purgeable(q, FullBudget)'
    <2>1. CASE new = {}
      <3>1. old = {} /\ y \in q \ new /\ y \in Dead' /\ Cardinality(Below(new, y)) < b
        BY <1>6, <1>8, <1>10, <2>1
      <3>2. y \notin Dead
        BY <1>5, <1>10, <2>1, <3>1
      <3> QED
        BY <1>10, <3>1, <3>2
    <2>2. CASE new # {}
      <3>1. PICK w \in new : w \in q
        BY <1>4, <2>2
      <3>2. Front(q) \in q /\ \A z \in q : Front(q) <= z
        BY <3>1, FrontInQueue
      <3>3. \A z \in q : z <= Front(q) => z = Front(q) /\ z <= w
        <4>1. PICK f \in q : f = Front(q)
          BY <3>2
        <4>2. \A z \in q : f <= z
          BY <3>2, <4>1
        <4>3. ASSUME NEW z \in q, z <= f
              PROVE  z = f /\ z <= w
          <5>1. z \in Nat /\ f \in Nat /\ w \in Nat
            BY <3>1, <4>1, <4>3
          <5>2. f <= z /\ f <= w
            BY <3>1, <4>2, <4>3
          <5> QED
            BY <4>3, <5>1, <5>2
        <4> QED
          BY <4>1, <4>3
      <3>4. Front(q) \in new
        BY <1>4, <3>1, <3>2, <3>3
      <3>5. Front(q) \notin Dead
        <4>1. Front(q) \notin old
          BY <1>5, <1>10
        <4> QED
          BY <1>4, <3>2, <3>3, <4>1
      <3>6. Front(q) \in Dead'
        BY <1>4, <3>2, <3>4
      <3> QED
        BY <1>6, <3>4, <3>5, <3>6
    <2> QED
      BY <2>1, <2>2
  <1> HIDE DEF Below
  <1>11. Purgeable(q, FullBudget) \subseteq Purgeable(q, FullBudget)'
    <2> SUFFICES ASSUME NEW y \in Purgeable(q, FullBudget), y \notin new
                 PROVE  y \in Purgeable(q, FullBudget)'
      BY <1>6
    <2>1. y \in q \ old /\ y \in Dead /\ Cardinality(Below(old, y)) < b
      BY <1>5, <1>8
    <2>2. Cardinality(Below(new, y)) < b
      BY <1>7, <1>9, <2>1
    <2> QED
      BY <1>6, <2>1, <2>2
  <1> QED
    BY <1>10, <1>11

\* A deadline that passes makes an entry purgeable, and the entry is live, marked, or
\* about to be marked.
LEMMA ExpireRoom ==
  ASSUME Grounds, RoomInv, Expire
  PROVE  RoomInv'
  <1> USE DEF Grounds
  <1>1. PICK x : late' = late \cup {x} /\ x \in Entries
    BY DEF Expire
  <1>2. UNCHANGED <<pending, cancelled, queue, estimate, current, pc, loc>>
    BY DEF Expire, slotVars
  <1>3. \A q \in Procs : Freeing(q)' <=> Freeing(q)
    BY <1>2 DEF Freeing
  <1>4. EntriesMarked'
    BY <1>2 DEF RoomInv, EntriesMarked
  <1>5. \/ x \in pending \/ x \in Dead
        \/ \E k \in Procs : Freeing(k)
    <2>1. PICK t \in Tenants, i \in Prios : x \in queue[t][i]
      BY <1>1 DEF Entries
    <2> QED
      BY <2>1 DEF RoomInv, EntriesMarked, Dead, Freeing, Procs
  <1>6. Dead' = Dead \cup {x}
    BY <1>1, <1>2 DEF Dead
  <1>7. ASSUME NEW t \in Tenants, Crowded(t), x \in pending \/ x \in Dead
        PROVE  Crowded(t)'
    <2>1. TenantFull(t)'
      BY <1>2, <1>7, StillFull DEF Crowded
    <2>2. ASSUME NEW i \in Prios, NEW q, q = queue'[t][i]
          PROVE  /\ q # {} => Front(q) \in pending'
                 /\ Purgeable(q, FullBudget)' # {} => Purgeable(q, FullBudget)' \cap pending' # {}
      <3>1. q = queue[t][i] /\ q \in SUBSET Nat /\ IsFiniteSet(q)
        BY <1>2, <2>2, EntryFacts, TotalLenType
      <3>2. /\ q # {} => Front(q) \in pending
            /\ Purgeable(q, FullBudget) # {} => Purgeable(q, FullBudget) \cap pending # {}
        BY <1>7, <3>1 DEF Crowded
      <3>3. CASE x \in Dead
        <4>1. Purgeable(q, FullBudget)' = Purgeable(q, FullBudget)
          BY <1>6, <3>3, SamePurgeable
        <4> QED
          BY <1>2, <3>2, <4>1
      <3>4. CASE x \in pending
        BY <1>2, <1>6, <3>1, <3>2, <3>4, LatePurgeable
      <3> QED
        BY <1>7, <3>2, <3>3, <3>4
    <2> QED
      BY <2>1, <2>2, CrowdedThen
  <1>8. \A t \in Tenants : TenantFull(t)' <=> TenantFull(t)
    BY <1>2, StillFull
  <1>9. (\E k \in Procs : Freeing(k)) \/ \A t \in Tenants : Crowded(t) => Crowded(t)'
    BY <1>5, <1>7
  <1>10. SlotFree' <=> SlotFree
    BY <1>2 DEF SlotFree
  <1>11. \A p \in Producers : pc'[p] = "wait" => Policy[loc'[p].job.tenant] = "timeout"
    BY <1>2 DEF RoomInv
  <1>12. ASSUME NEW p \in Producers, NEW t \in Tenants, p \in current',
                loc'[p].job.tenant = t, Policy[t] = "timeout"
         PROVE  /\ pc'[p] = "wait" =>
                     (\E q \in Procs : Freeing(q)') \/ ~SlotFree' \/ Crowded(t)'
                /\ pc'[p] = "admit" /\ TenantFull(t)' =>
                     (\E q \in Procs : Freeing(q)') \/ Crowded(t)'
    <2>1. /\ pc[p] = "wait" =>
               (\E q \in Procs : Freeing(q)) \/ ~SlotFree \/ Crowded(t)
          /\ pc[p] = "admit" /\ TenantFull(t) =>
               (\E q \in Procs : Freeing(q)) \/ Crowded(t)
      BY <1>2, <1>12 DEF RoomInv
    <2>2. (\E q \in Procs : Freeing(q)) => \E q \in Procs : Freeing(q)'
      BY <1>3
    <2> QED
      BY <1>2, <1>8, <1>9, <1>10, <2>1, <2>2
  <1> QED
    BY <1>4, <1>11, <1>12 DEF RoomInv

LEMMA IdleRoom ==
  ASSUME RoomInv, UNCHANGED vars
  PROVE  RoomInv'
  <1>1. UNCHANGED <<pending, cancelled, queue, late, estimate, current, pc, loc>>
    BY DEF vars, slotVars, entryVars
  <1>2. \A t \in Tenants : (TenantFull(t)' <=> TenantFull(t)) /\ (Crowded(t)' <=> Crowded(t))
    BY <1>1 DEF TenantFull, TotalLen, Crowded, Purgeable, DeadPrefix, SideScan, Dead
  <1>3. (SlotFree' <=> SlotFree) /\ \A q : Freeing(q)' <=> Freeing(q)
    BY <1>1 DEF SlotFree, Freeing
  <1>4. EntriesMarked'
    BY <1>1 DEF RoomInv, EntriesMarked
  <1> QED
    BY <1>1, <1>2, <1>3, <1>4 DEF RoomInv

LEMMA InitRoom == Init => RoomInv
  BY DEF Init, RoomInv, EntriesMarked, Procs

\* While no thread is in the middle of a call, a Timeout producer sleeps only if its
\* tenant or the scheduler is full: whatever makes room (a release, a purge, a drop, a
\* delivery, a cancel) notifies it (enqueue_timeout_with_handle).
THEOREM RoomInvariant == Spec => []RoomInv
  <1>1. TypeInv /\ TypeInv' /\ SlotInv /\ LedgerInv /\ RoomInv /\ [Next]_vars => RoomInv'
    <2> SUFFICES ASSUME Grounds, TypeInv', RoomInv, [Next]_vars
                 PROVE  RoomInv'
      BY DEF Grounds
    <2>1. CASE \E p \in Producers : Enqueue(p) \/ ProducerStep(p)
      BY <2>1, BeginRoom, LockRoom, AdmitRoom, DropRoom, ReserveRoom, PushRoom
         DEF ProducerStep
    <2>2. CASE \E c \in Consumers : ConsumerStep(c)
      BY <2>2, PollRoom, VisitRoom, WeighRoom, CommitRoom DEF ConsumerStep, Polls
    <2>3. CASE \E k \in Cancellers : CancelTake(k) \/ CancelMark(k)
      BY <2>3, CancelRoom
    <2>4. CASE (\E k \in Closers : Close(k)) \/ \E p \in Procs : Release(p) \/ NotifyAll(p)
      BY <2>4, SettleRoom DEF Procs
    <2>5. CASE Expire
      BY <2>5, ExpireRoom
    <2>6. CASE UNCHANGED vars
      BY <2>6, IdleRoom
    <2> QED
      BY <2>1, <2>2, <2>3, <2>4, <2>5, <2>6 DEF Next
  <1> QED
    BY <1>1, InitRoom, TypeCorrect, SlotInvariant, LedgerInvariant, PTL DEF Spec

THEOREM NoSleepWhenRoom == Spec => []NoSleepOnRoom
  <1>1. TypeInv /\ RoomInv => NoSleepOnRoom
    <2> SUFFICES ASSUME TypeInv, RoomInv, \A p \in Procs : Resting(p),
                        NEW p \in Producers, Asleep(p)
                 PROVE  TenantFull(loc[p].job.tenant) \/ ~SlotFree
      BY DEF NoSleepOnRoom
    <2>1. PICK t \in Tenants : t = loc[p].job.tenant
      BY LocFields DEF TypeInv, Procs
    <2>2. \A q \in Procs : ~Freeing(q)
      BY DEF Resting, Asleep, Freeing
    <2>3. ~SlotFree \/ Crowded(t)
      BY <2>1, <2>2 DEF RoomInv, Asleep
    <2> QED
      BY <2>1, <2>3 DEF Crowded
  <1> QED
    BY <1>1, TypeCorrect, RoomInvariant, PTL
=============================================================================
