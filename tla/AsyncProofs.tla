----------------------------- MODULE AsyncProofs -----------------------------
(***************************************************************************)
(* AsyncConsumers for any number of threads, tasks, handlers and buffered  *)
(* items: where the tasks are, that each is in one place, the order users  *)
(* get them in and the bound on the handlers.                              *)
(***************************************************************************)
EXTENDS AsyncProps, FiniteSetTheorems, TLAPS

LEMMA Parameters ==
  /\ Capacity \in Nat \ {0} /\ Limit \in Nat \ {0} /\ WaitFor \in Nat
  /\ WaitFor = Limit % U32 /\ WaitFor <= Limit
  /\ Worker \in Threads /\ Worker \notin Pool /\ Pool \subseteq Threads
  /\ NoThread \notin Threads /\ IsFiniteSet(Threads) /\ IsFiniteSet(Ids)
  <1>1. Capacity \in Nat \ {0} /\ Limit \in Nat \ {0} /\ U32 \in Nat \ {0} /\ NumTasks \in Nat
    BY AsyncAssumption DEF Capacity, Limit
  <1>2. WaitFor \in Nat /\ WaitFor = Limit % U32 /\ WaitFor <= Limit
    BY <1>1 DEF WaitFor
  <1>3. IsFiniteSet(Threads)
    BY AsyncAssumption, FS_AddElement, FS_Union, FS_Singleton DEF Threads
  <1>4. IsFiniteSet(Ids)
    BY <1>1, FS_Interval DEF Ids
  <1> QED
    BY <1>1, <1>2, <1>3, <1>4, AsyncAssumption DEF Threads

\* The sets that are counted are finite.
LEMMA Sizes ==
  ASSUME AsyncInv
  PROVE  /\ IsFiniteSet(Delivered) /\ Cardinality(Delivered) \in Nat
         /\ IsFiniteSet(Holding) /\ Cardinality(Holding) \in Nat
         /\ IsFiniteSet(Orphans) /\ Cardinality(Orphans) \in Nat
         /\ IsFiniteSet(lost) /\ Cardinality(lost) \in Nat
         /\ IsFiniteSet(running) /\ Cardinality(running) \in Nat
         /\ permits \in Nat /\ giveUps \in Nat
         /\ channel \in Seq(DOMAIN job) /\ Len(channel) \in Nat
         /\ DOMAIN channel = 1 .. Len(channel)
         /\ \A u \in Users : got[u] \in Seq(DOMAIN job) /\ Len(got[u]) \in Nat
         /\ {"receiver", "stream", "dispatcher"} = Users
         /\ job \in Seq(Jobs) /\ Len(job) \in Nat /\ DOMAIN job = 1 .. Len(job)
         /\ DOMAIN job \subseteq Ids
  <1>1. /\ Delivered \subseteq Ids /\ Holding \subseteq Threads /\ Orphans \subseteq Threads
        /\ lost \subseteq Ids /\ running \subseteq Ids
    BY Parameters DEF Delivered, Holding, Orphans, AsyncInv, AsyncTypeInv, CallsServed
  <1>2. \A S : S \subseteq Ids \/ S \subseteq Threads => IsFiniteSet(S) /\ Cardinality(S) \in Nat
    BY Parameters, FS_Subset, FS_CardinalityType
  <1>3. /\ IsFiniteSet(Delivered) /\ Cardinality(Delivered) \in Nat
        /\ IsFiniteSet(Holding) /\ Cardinality(Holding) \in Nat
        /\ IsFiniteSet(Orphans) /\ Cardinality(Orphans) \in Nat
        /\ IsFiniteSet(lost) /\ Cardinality(lost) \in Nat
        /\ IsFiniteSet(running) /\ Cardinality(running) \in Nat
    BY <1>1, <1>2
  <1>4. /\ channel \in Seq(DOMAIN job) /\ Len(channel) \in Nat
        /\ DOMAIN channel = 1 .. Len(channel)
        /\ job \in Seq(Jobs) /\ Len(job) \in Nat /\ DOMAIN job = 1 .. Len(job)
        /\ DOMAIN job \subseteq Ids /\ permits \in Nat /\ giveUps \in Nat
    BY Parameters, AsyncAssumption DEF AsyncInv, AsyncTypeInv, CallsServed
  <1>5. \A u \in Users : got[u] \in Seq(DOMAIN job) /\ Len(got[u]) \in Nat
    BY DEF AsyncInv, AsyncTypeInv
  <1> QED
    BY <1>3, <1>4, <1>5 DEF Users

-----------------------------------------------------------------------------
(* Counting. *)

OnTheWay == Cardinality(Holding) + Len(channel) + (IF next = 0 THEN 0 ELSE 1)
Received == Len(got["receiver"]) + Len(got["stream"]) + Len(got["dispatcher"])

LEMMA PlacesNat ==
  ASSUME AsyncInv
  PROVE  /\ OnTheWay \in Nat /\ Received \in Nat
         /\ OnTheWay + Received + Cardinality(lost) = Cardinality(Delivered)
  <1>1. PICK h, l \in Nat : h = Cardinality(Holding) /\ l = Cardinality(lost)
    BY Sizes
  <1>2. PICK c, n \in Nat : c = Len(channel) /\ n = (IF next = 0 THEN 0 ELSE 1)
    BY Sizes
  <1>3. PICK a, b, d \in Nat : /\ a = Len(got["receiver"]) /\ b = Len(got["stream"])
                              /\ d = Len(got["dispatcher"])
    BY Sizes
  <1>4. h + c + n + a + b + d + l = Cardinality(Delivered)
    BY <1>1, <1>2, <1>3 DEF AsyncInv, TasksAccounted
  <1>5. OnTheWay = h + c + n /\ Received = a + b + d
    BY <1>1, <1>2, <1>3 DEF OnTheWay, Received
  <1> QED
    BY <1>1, <1>4, <1>5

\* The tasks are counted where they are now.
LEMMA Counted ==
  ASSUME AsyncTypeInv', CallsServed',
         OnTheWay' + Received' + Cardinality(lost') = Cardinality(Delivered'),
         Cardinality(lost') <= giveUps' + (IF rx' = "open" THEN 0 ELSE Capacity + 1)
  PROVE  TasksAccounted'
  <1>1. PICK h, l \in Nat : h = Cardinality(Holding') /\ l = Cardinality(lost')
    <2>1. lost' \subseteq Ids /\ Holding' \subseteq Threads
      BY DEF AsyncTypeInv, CallsServed, Holding
    <2>2. IsFiniteSet(lost') /\ IsFiniteSet(Holding')
      BY <2>1, Parameters, FS_Subset
    <2> QED
      BY <2>2, FS_CardinalityType
  <1>2. PICK c, n \in Nat : c = Len(channel') /\ n = (IF next' = 0 THEN 0 ELSE 1)
    BY DEF AsyncTypeInv
  <1>3. PICK a, b, d \in Nat : /\ a = Len(got'["receiver"]) /\ b = Len(got'["stream"])
                              /\ d = Len(got'["dispatcher"])
    BY DEF AsyncTypeInv, Users
  <1>4. OnTheWay' = h + c + n /\ Received' = a + b + d
    BY <1>1, <1>2, <1>3 DEF OnTheWay, Received
  <1>5. h + c + n + a + b + d + l = Cardinality(Delivered')
    BY <1>1, <1>4
  <1> QED
    BY <1>1, <1>2, <1>3, <1>5 DEF TasksAccounted

LEMMA LosesNat == ReceiverLoses \in Nat
  BY Parameters DEF ReceiverLoses

\* If losses grow, by as much as what accounts for them, they stay accounted for.
LEMMA LossesHold ==
  ASSUME AsyncInv, NEW k \in Nat, giveUps' \in Nat,
         IsFiniteSet(lost'), IsFiniteSet(Orphans'),
         Cardinality(lost') + Cardinality(Orphans') <= Cardinality(lost) + Cardinality(Orphans) + k,
         giveUps + ReceiverLoses + k <= giveUps' + ReceiverLoses'
  PROVE  /\ LossesBounded'
         /\ Cardinality(lost') <= giveUps' + (IF rx' = "open" THEN 0 ELSE Capacity + 1)
  <1>1. Cardinality(lost') \in Nat /\ Cardinality(Orphans') \in Nat
    BY FS_CardinalityType
  <1>2. /\ ReceiverLoses \in Nat /\ ReceiverLoses' \in Nat
        /\ ReceiverLoses' <= (IF rx' = "open" THEN 0 ELSE Capacity + 1)
    BY Parameters DEF ReceiverLoses
  <1>3. Cardinality(lost') + Cardinality(Orphans') <= giveUps' + ReceiverLoses'
    <2>1. PICK l \in Nat : l = Cardinality(lost) + Cardinality(Orphans)
      BY Sizes
    <2>2. PICK c \in Nat : c = giveUps + ReceiverLoses
      <3>1. giveUps \in Nat
        BY Sizes
      <3> QED
        BY <1>2, <3>1
    <2>3. PICK a, b \in Nat : a = Cardinality(lost') /\ b = Cardinality(Orphans')
      BY <1>1
    <2>4. PICK d, g \in Nat : d = ReceiverLoses' /\ g = giveUps'
      BY <1>2
    <2>5. l <= c
      BY <2>1, <2>2 DEF AsyncInv, LossesBounded
    <2>6. a + b <= l + k
      BY <2>1, <2>3
    <2>7. c + k <= g + d
      BY <2>2, <2>4
    <2>8. a + b <= g + d
      BY <2>5, <2>6, <2>7
    <2> QED
      BY <2>3, <2>4, <2>8
  <1>4. LossesBounded'
    BY <1>3 DEF LossesBounded
  <1>5. Cardinality(lost') <= giveUps' + (IF rx' = "open" THEN 0 ELSE Capacity + 1)
    BY <1>1, <1>2, <1>3, Parameters
  <1> QED
    BY <1>4, <1>5

\* Nobody gives up or loses a task; threads other than orphans may move.
LEMMA LossesStay ==
  ASSUME AsyncInv, UNCHANGED <<lost, giveUps>>,
         Orphans' \subseteq Orphans, ReceiverLoses <= ReceiverLoses'
  PROVE  /\ LossesBounded'
         /\ Cardinality(lost') <= giveUps' + (IF rx' = "open" THEN 0 ELSE Capacity + 1)
  <1>1. IsFiniteSet(Orphans') /\ Cardinality(Orphans') <= Cardinality(Orphans)
    BY Sizes, FS_Subset
  <1>2. Cardinality(Orphans') \in Nat
    BY <1>1, FS_CardinalityType
  <1>3. ReceiverLoses \in Nat /\ ReceiverLoses' \in Nat
    BY Parameters DEF ReceiverLoses
  <1>4. Cardinality(lost') + Cardinality(Orphans') <= Cardinality(lost) + Cardinality(Orphans) + 0
    BY <1>1, <1>2, Sizes
  <1>5. giveUps + ReceiverLoses + 0 <= giveUps' + ReceiverLoses'
    BY <1>3, Sizes
  <1> QED
    BY <1>1, <1>4, <1>5, Sizes, LossesHold

\* Nobody starts or ends a handler.
LEMMA HandlersStay ==
  ASSUME AsyncInv, UNCHANGED <<running, permits>>, run' = "returned" => run = "returned"
  PROVE  HandlersGated' /\ permits' \in 0 .. Limit
  BY DEF AsyncInv, AsyncTypeInv, HandlersGated, Limit

\* Every task stays where it is.
LEMMA TasksStay ==
  ASSUME AsyncInv, UNCHANGED <<item, channel, next, got, lost, running>>, Delivered' = Delivered
  PROVE  /\ TasksApart' /\ Holding' = Holding
         /\ Cardinality(lost') <= giveUps' + (IF rx' = "open" THEN 0 ELSE Capacity + 1)
              => TasksAccounted'
  <1>1. Holding' = Holding
    BY DEF Holding
  <1>2. TasksApart'
    BY <1>1 DEF AsyncInv, TasksApart
  <1> QED
    BY <1>1, <1>2 DEF AsyncInv, TasksAccounted

-----------------------------------------------------------------------------
(* What others do to the scheduler. *)

usersVars == <<dequeuer, item, receiverVars, call, runVars, ended, got, lost, giveUps>>

\* Nothing is delivered, and what is new in the queue comes after all that was.
LEMMA QueueKeeps ==
  ASSUME AsyncInv, UNCHANGED usersVars,
         mode' \in {"open", "drain", "immediate"}, inside' \subseteq Submitters,
         job' \in Seq(Jobs), DOMAIN job \subseteq DOMAIN job', DOMAIN job' \subseteq Ids,
         \A x \in DOMAIN job : job'[x] = job[x],
         status' \in [Ids -> Fates], Delivered' = Delivered,
         \A x \in Ids : status'[x] = "none" <=> x \notin DOMAIN job',
         \A y \in Queued' : y \in Queued \/ \A x \in DOMAIN job : x < y
  PROVE  AsyncInv'
  <1> USE DEF usersVars, receiverVars, runVars
  <1>1. \A x, y \in DOMAIN job : Before(x, y)' <=> Before(x, y)
    BY DEF Before, Ledger!SameQueue
  <1>2. Delivered \subseteq DOMAIN job /\ Queued \subseteq DOMAIN job
    BY DEF AsyncInv, CallsServed, Delivered, Queued, Ledger!Queued
  <1>3. Orphans' = Orphans /\ ReceiverLoses' = ReceiverLoses
    BY DEF Orphans, ReceiverLoses
  <1>4. LossesBounded' /\ Cardinality(lost') <= giveUps' + (IF rx' = "open" THEN 0 ELSE Capacity + 1)
    BY <1>3, LosesNat, LossesStay
  <1>5. TasksApart' /\ TasksAccounted'
    BY <1>4, TasksStay
  <1>6. HandlersGated' /\ permits' \in 0 .. Limit
    BY HandlersStay
  <1>7. AsyncTypeInv'
    <2>1. channel' \in Seq(DOMAIN job') /\ got' \in [Users -> Seq(DOMAIN job')]
      BY Sizes DEF AsyncInv, AsyncTypeInv
    <2> QED
      BY <1>6, <2>1 DEF AsyncInv, AsyncTypeInv
  <1>8. CallsServed'
    BY DEF AsyncInv, CallsServed, Holding
  <1>9. OrderKept'
    <2>1. \A u \in Users : \A i \in DOMAIN got[u] : got[u][i] \in DOMAIN job
      BY <1>2 DEF AsyncInv, CallsServed
    <2> QED
      BY <2>1 DEF AsyncInv, OrderKept, Ledger!SameQueue
  <1>10. OrderOnTheWay'
    <2>1. \A x \in Delivered', y \in Queued' : Before(x, y)'
      BY <1>1, <1>2 DEF AsyncInv, OrderOnTheWay, Before
    <2>2. /\ \A i \in DOMAIN channel : channel[i] \in DOMAIN job
          /\ \A t \in Threads : item[t] # 0 => item[t] \in DOMAIN job
          /\ \A u \in Users : \A i \in DOMAIN got[u] : got[u][i] \in DOMAIN job
          /\ next # 0 => next \in DOMAIN job
          /\ \A u \in DOMAIN call : call[u] # NoThread => call[u] \in Threads
      BY <1>2, Parameters DEF AsyncInv, AsyncTypeInv, CallsServed, Holding
    <2>3. "receiver" \in Users /\ "dispatcher" \in Users /\ DOMAIN call \subseteq Users
      BY DEF AsyncInv, AsyncTypeInv, Users
    <2> QED
      BY <1>1, <2>1, <2>2, <2>3, Parameters DEF AsyncInv, OrderOnTheWay
  <1> QED
    BY <1>4, <1>5, <1>6, <1>7, <1>8, <1>9, <1>10 DEF AsyncInv

LEMMA SchedulerKeeps ==
  ASSUME AsyncInv,
         \/ \E p \in Submitters : Enter(p) \/ Refuse(p) \/ Enqueue(p)
         \/ \E x \in Queued : Cancel(x)
         \/ \E m \in CloseModes : Close(m)
         \/ UNCHANGED vars
  PROVE  AsyncInv'
  <1>1. /\ mode \in {"open", "drain", "immediate"} /\ inside \subseteq Submitters
        /\ job \in Seq(Jobs) /\ DOMAIN job \subseteq Ids /\ status \in [Ids -> Fates]
        /\ \A x \in Ids : status[x] = "none" <=> x \notin DOMAIN job
    BY DEF AsyncInv, AsyncTypeInv, CallsServed
  <1>2. CASE \/ \E p \in Submitters : Enter(p) \/ Refuse(p)
             \/ \E m \in CloseModes : Close(m)
             \/ UNCHANGED vars
    <2>1. /\ UNCHANGED usersVars /\ UNCHANGED <<job, status>>
          /\ mode' \in {"open", "drain", "immediate"} /\ inside' \subseteq Submitters
      BY <1>1, <1>2 DEF Enter, Refuse, Close, SchedulerStep, usersVars, vars, ledgerVars,
                        Ledger!Admit, Ledger!Refuse, Ledger!Close
    <2>2. Delivered' = Delivered /\ Queued' = Queued
      BY <2>1 DEF Delivered, Queued, Ledger!Queued
    <2> QED
      BY <1>1, <2>1, <2>2, QueueKeeps
  <1>3. CASE \E x \in Queued : Cancel(x)
    <2>1. PICK x \in Queued :
            /\ UNCHANGED usersVars /\ UNCHANGED <<mode, job, inside>>
            /\ status' = [y \in Ids |-> IF y \in {x} THEN "cancelled" ELSE status[y]]
      BY <1>3, Zenon DEF Cancel, SchedulerStep, usersVars, Ledger!Cancel, Ledger!Settle
    <2>2. x \in Ids /\ status[x] = "queued"
      BY DEF Queued, Ledger!Queued
    <2>3. /\ status' \in [Ids -> Fates]
          /\ \A y \in Ids : status'[y] = IF y = x THEN "cancelled" ELSE status[y]
      BY <1>1, <2>1, <2>2 DEF Fates
    <2>4. Delivered' = Delivered /\ Queued' \subseteq Queued
      BY <2>2, <2>3 DEF Delivered, Queued, Ledger!Queued
    <2>5. \A y \in Ids : status'[y] = "none" <=> y \notin DOMAIN job'
      BY <1>1, <2>1, <2>2, <2>3
    <2> QED
      BY <1>1, <2>1, <2>3, <2>4, <2>5, QueueKeeps
  <1>4. CASE \E p \in Submitters : Enqueue(p)
    <2> DEFINE x == Len(job) + 1
    <2>1. PICK j \in Jobs :
            /\ UNCHANGED usersVars /\ mode' = mode /\ inside' \subseteq inside
            /\ x \in Ids /\ job' = Append(job, j)
            /\ status' = [status EXCEPT ![x] = "queued"]
      BY <1>4 DEF Enqueue, SchedulerStep, usersVars, Ledger!Accept
    <2>2. /\ job' \in Seq(Jobs) /\ DOMAIN job' = DOMAIN job \cup {x} /\ x \notin DOMAIN job
          /\ \A y \in DOMAIN job : y < x /\ job'[y] = job[y]
      BY <2>1, Sizes
    <2>3. /\ status' \in [Ids -> Fates]
          /\ \A y \in Ids : status'[y] = IF y = x THEN "queued" ELSE status[y]
      BY <1>1, <2>1 DEF Fates
    <2>4. Delivered' = Delivered /\ Queued' \subseteq Queued \cup {x}
      BY <1>1, <2>2, <2>3 DEF Delivered, Queued, Ledger!Queued
    <2>5. DOMAIN job' \subseteq Ids /\ \A y \in Ids : status'[y] = "none" <=> y \notin DOMAIN job'
      BY <1>1, <2>1, <2>2, <2>3
    <2> QED
      BY <1>1, <2>1, <2>2, <2>3, <2>4, <2>5, QueueKeeps
  <1> QED
    BY <1>2, <1>3, <1>4

-----------------------------------------------------------------------------
(* Steps that move no task. *)

Phases == {"idle", "dequeue", "scan", "task", "closed", "ended"}

\* A call is under way for whom it should be.
CallsFit ==
  /\ call \in [{"stream", "dispatcher"} -> Pool \cup {NoThread}]
  /\ \A u, v \in DOMAIN call : call[u] = call[v] => u = v \/ call[u] = NoThread
  /\ \A u \in DOMAIN call :
       call[u] # NoThread => dequeuer[call[u]] \notin {"idle", "ended"}
  /\ call["dispatcher"] # NoThread => run = "loop"

LEMMA PhaseKeeps ==
  ASSUME AsyncInv,
         UNCHANGED <<ledgerVars, item, channel, next, got, lost, running, permits>>,
         dequeuer' \in [Threads -> Phases],
         \A t \in Threads : dequeuer'[t] = "task" <=> dequeuer[t] = "task",
         \A t \in Pool : dequeuer'[t] # "ended",
         rx' \in {"open", "closed", "dropped", "joining", "joined"},
         run' \in {"loop", "acquire", "wait", "returned", "aborted"},
         run' = "acquire" <=> run = "acquire",
         ended' \subseteq Users, giveUps' \in 0 .. MaxGiveUps,
         CallsFit',
         \A u \in DOMAIN call : \/ call'[u] \in {call[u], NoThread}
                                \/ item[call'[u]] = 0,
         HandlersGated', LossesBounded',
         Cardinality(lost') <= giveUps' + (IF rx' = "open" THEN 0 ELSE Capacity + 1)
  PROVE  AsyncInv'
  <1> USE DEF ledgerVars
  <1>1. Delivered' = Delivered /\ Queued' = Queued
    BY DEF Delivered, Queued, Ledger!Queued
  <1>2. TasksApart' /\ TasksAccounted' /\ Holding' = Holding
    BY <1>1, TasksStay
  <1>3. AsyncTypeInv'
    BY DEF AsyncInv, AsyncTypeInv, CallsFit, Phases
  <1>4. CallsServed'
    BY <1>1, <1>2 DEF AsyncInv, CallsServed, CallsFit
  <1>5. OrderKept'
    BY DEF AsyncInv, OrderKept, Ledger!SameQueue
  <1>6. OrderOnTheWay'
    <2>1. \A x, y : Before(x, y)' <=> Before(x, y)
      BY DEF Before, Ledger!SameQueue
    <2>2. DOMAIN call' = DOMAIN call
      BY DEF AsyncInv, AsyncTypeInv, CallsFit
    <2> QED
      BY <1>1, <2>1, <2>2 DEF AsyncInv, OrderOnTheWay
  <1> QED
    BY <1>2, <1>3, <1>4, <1>5, <1>6 DEF AsyncInv

\* The facts about a state that such a step needs.
LEMMA Present ==
  ASSUME AsyncInv
  PROVE  /\ dequeuer \in [Threads -> Phases] /\ \A t \in Pool : dequeuer[t] # "ended"
         /\ rx \in {"open", "closed", "dropped", "joining", "joined"}
         /\ run \in {"loop", "acquire", "wait", "returned", "aborted"}
         /\ ended \subseteq Users /\ giveUps \in 0 .. MaxGiveUps /\ CallsFit
         /\ DOMAIN call = {"stream", "dispatcher"} /\ DOMAIN call \subseteq Users
         /\ item \in [Threads -> DOMAIN job \cup {0}] /\ 0 \notin DOMAIN job
         /\ \A t \in Threads : item[t] # 0 <=> dequeuer[t] = "task"
         /\ next # 0 <=> run = "acquire"
         /\ Cardinality(lost) <= giveUps + (IF rx = "open" THEN 0 ELSE Capacity + 1)
  <1>1. 0 \notin DOMAIN job
    BY Sizes
  <1>2. CallsFit /\ \A t \in Pool : dequeuer[t] # "ended"
    BY DEF AsyncInv, AsyncTypeInv, CallsServed, CallsFit
  <1>3. DOMAIN call = {"stream", "dispatcher"} /\ DOMAIN call \subseteq Users
    BY DEF AsyncInv, AsyncTypeInv, Users
  <1>4. next # 0 <=> run = "acquire"
    BY <1>1 DEF AsyncInv, AsyncTypeInv
  <1> QED
    BY <1>1, <1>2, <1>3, <1>4 DEF AsyncInv, AsyncTypeInv, TasksAccounted, Phases

\* A thread between tasks goes on.
LEMMA QuietKeeps ==
  ASSUME AsyncInv, NEW t \in Threads,
         NEW from \in Phases \ {"task", "ended"}, NEW to \in Phases \ {"task"},
         t \in Pool => from # "idle" /\ to \notin {"idle", "ended"},
         QuietStep(t, from, to)
  PROVE  AsyncInv'
  <1>1. /\ UNCHANGED <<ledgerVars, item, channel, next, got, lost, running, permits>>
        /\ UNCHANGED <<rx, call, run, ended, giveUps>>
        /\ dequeuer[t] = from /\ dequeuer' = [dequeuer EXCEPT ![t] = to]
    BY DEF QuietStep, ThreadStep, Goes, receiverVars, runVars
  <1>2. /\ dequeuer' \in [Threads -> Phases]
        /\ \A s \in Threads : dequeuer'[s] = IF s = t THEN to ELSE dequeuer[s]
    BY <1>1, Present
  <1>3. CallsFit'
    BY <1>1, <1>2, Parameters, Present DEF CallsFit
  <1>4. Orphans' \subseteq Orphans
    BY <1>1, <1>2, Parameters DEF Orphans
  <1>5. ReceiverLoses <= ReceiverLoses'
    BY <1>1, <1>2, Parameters DEF ReceiverLoses
  <1>6. HandlersGated'
    BY <1>1, HandlersStay
  <1>7. LossesBounded' /\ Cardinality(lost') <= giveUps' + (IF rx' = "open" THEN 0 ELSE Capacity + 1)
    BY <1>1, <1>4, <1>5, LossesStay
  <1>8. /\ \A s \in Threads : dequeuer'[s] = "task" <=> dequeuer[s] = "task"
        /\ \A s \in Pool : dequeuer'[s] # "ended"
    BY <1>1, <1>2, Parameters, Present
  <1> QED
    BY <1>1, <1>2, <1>3, <1>6, <1>7, <1>8, Present, PhaseKeeps

\* The drop of the receiver goes on, or its user is told that there is no more.
LEMMA ReceiverKeeps ==
  ASSUME AsyncInv,
         UNCHANGED <<ledgerVars, item, channel, next, got, lost, running, permits>>,
         UNCHANGED <<dequeuer, call, run, giveUps>>,
         ended' \subseteq Users,
         \/ rx' = rx
         \/ rx = "open" /\ rx' = "closed"
         \/ rx \in {"dropped", "joining"} /\ rx' \in {"joining", "joined"}
  PROVE  AsyncInv'
  <1>1. CallsFit' /\ Orphans' = Orphans
    BY Present DEF CallsFit, Orphans
  <1>2. ReceiverLoses <= ReceiverLoses'
    BY Parameters DEF ReceiverLoses
  <1>3. HandlersGated'
    BY HandlersStay
  <1>4. LossesBounded' /\ Cardinality(lost') <= giveUps' + (IF rx' = "open" THEN 0 ELSE Capacity + 1)
    BY <1>1, <1>2, LossesStay
  <1>5. rx' \in {"open", "closed", "dropped", "joining", "joined"}
    BY Present
  <1> QED
    BY <1>1, <1>3, <1>4, <1>5, Present, PhaseKeeps

\* A pool thread is spawned for a user.
LEMMA SpawnKeeps ==
  ASSUME AsyncInv, NEW u \in {"stream", "dispatcher"}, SpawnBlocking(u)
  PROVE  AsyncInv'
  <1>1. PICK t \in Pool :
          /\ dequeuer[t] = "idle" /\ Asks(u) /\ call[u] = NoThread
          /\ dequeuer' = [dequeuer EXCEPT ![t] = "dequeue"]
          /\ call' = [call EXCEPT ![u] = t]
          /\ UNCHANGED <<ledgerVars, item, receiverVars, runVars, ended, got, lost, giveUps>>
    <2> DEFINE idle == {t \in Pool : dequeuer[t] = "idle"}
    <2>1. PICK t : t = CHOOSE s \in idle : TRUE
      OBVIOUS
    <2>2. idle # {} => t \in idle
      BY <2>1
    <2> QED
      BY <2>1, <2>2 DEF SpawnBlocking, Goes
  <1> USE DEF receiverVars, runVars
  <1>2. /\ dequeuer' \in [Threads -> Phases]
        /\ \A s \in Threads : dequeuer'[s] = IF s = t THEN "dequeue" ELSE dequeuer[s]
        /\ \A v \in {"stream", "dispatcher"} : call'[v] = IF v = u THEN t ELSE call[v]
        /\ call' \in [{"stream", "dispatcher"} -> Pool \cup {NoThread}]
    BY <1>1, Parameters, Present DEF CallsFit, Phases
  <1>3. \A v \in {"stream", "dispatcher"} : call[v] # t
    BY <1>1, Parameters, Present DEF CallsFit
  <1>4. CallsFit'
    <2>1. \A v, w \in DOMAIN call' : call'[v] = call'[w] => v = w \/ call'[v] = NoThread
      BY <1>2, <1>3, Present DEF CallsFit
    <2>2. \A v \in DOMAIN call' :
            call'[v] # NoThread => dequeuer'[call'[v]] \notin {"idle", "ended"}
      BY <1>2, <1>3, Parameters, Present DEF CallsFit
    <2>3. call'["dispatcher"] # NoThread => run' = "loop"
      BY <1>1, <1>2, Present DEF CallsFit, Asks
    <2> QED
      BY <1>2, <2>1, <2>2, <2>3 DEF CallsFit
  <1>5. Orphans' \subseteq Orphans
    BY <1>1, <1>2, Parameters, Present DEF Orphans
  <1>6. ReceiverLoses <= ReceiverLoses'
    BY <1>1, <1>2, Parameters DEF ReceiverLoses
  <1>7. HandlersGated'
    BY <1>1, HandlersStay
  <1>8. LossesBounded' /\ Cardinality(lost') <= giveUps' + (IF rx' = "open" THEN 0 ELSE Capacity + 1)
    BY <1>1, <1>5, <1>6, LossesStay
  <1>9. /\ \A s \in Threads : dequeuer'[s] = "task" <=> dequeuer[s] = "task"
        /\ \A s \in Pool : dequeuer'[s] # "ended" /\ item[t] = 0
    BY <1>1, <1>2, Parameters, Present
  <1>10. \A v \in DOMAIN call : call'[v] \in {call[v], NoThread} \/ item[call'[v]] = 0
    BY <1>1, <1>2, <1>9, Present
  <1> QED
    BY <1>1, <1>2, <1>4, <1>7, <1>8, <1>9, <1>10, Present, PhaseKeeps

\* A thread of the pool is done without a task, for its user or for nobody.
LEMMA ThreadEnds ==
  ASSUME AsyncInv, NEW t \in Pool, dequeuer[t] = "closed",
         dequeuer' = [dequeuer EXCEPT ![t] = "idle"],
         UNCHANGED <<ledgerVars, item, channel, next, got, lost, running, permits, rx, giveUps>>,
         \/ call' = call /\ run' = run /\ \A u \in DOMAIN call : call[u] # t
         \/ \E u \in DOMAIN call : /\ call[u] = t /\ call' = [call EXCEPT ![u] = NoThread]
                                   /\ run' = IF u = "dispatcher" THEN "wait" ELSE run,
         ended' \subseteq Users
  PROVE  AsyncInv'
  <1>1. /\ dequeuer' \in [Threads -> Phases]
        /\ \A s \in Threads : dequeuer'[s] = IF s = t THEN "idle" ELSE dequeuer[s]
    BY Parameters, Present DEF Phases
  <1>2. /\ call' \in [{"stream", "dispatcher"} -> Pool \cup {NoThread}]
        /\ \A v \in {"stream", "dispatcher"} :
             /\ call'[v] \in {call[v], NoThread} /\ call'[v] # t
             /\ call[v] # t => call'[v] = call[v]
    BY Parameters, Present DEF CallsFit
  <1>3. /\ run' \in {"loop", "acquire", "wait", "returned", "aborted"}
        /\ run' = "acquire" <=> run = "acquire"
        /\ run' = "returned" <=> run = "returned"
        /\ call'["dispatcher"] # NoThread => run' = "loop"
    BY Parameters, Present DEF CallsFit
  <1>4. CallsFit'
    BY <1>1, <1>2, <1>3, Parameters, Present DEF CallsFit
  <1>5. Orphans' \subseteq Orphans
    BY <1>1, <1>2, Parameters, Present DEF Orphans
  <1>6. ReceiverLoses <= ReceiverLoses'
    BY <1>1, Parameters DEF ReceiverLoses
  <1>7. HandlersGated'
    BY <1>3, HandlersStay
  <1>8. LossesBounded' /\ Cardinality(lost') <= giveUps' + (IF rx' = "open" THEN 0 ELSE Capacity + 1)
    BY <1>5, <1>6, LossesStay
  <1>9. /\ \A s \in Threads : dequeuer'[s] = "task" <=> dequeuer[s] = "task"
        /\ \A s \in Pool : dequeuer'[s] # "ended"
    BY <1>1, Parameters, Present
  <1>10. \A v \in DOMAIN call : call'[v] \in {call[v], NoThread}
    BY <1>2, Present
  <1> QED
    BY <1>1, <1>3, <1>4, <1>7, <1>8, <1>9, <1>10, Present, PhaseKeeps

\* Somebody drops a pending call: its thread, if it has one, is an orphan now.
LEMMA CallDropped ==
  ASSUME AsyncInv, NEW u \in {"stream", "dispatcher"},
         giveUps < MaxGiveUps, giveUps' = giveUps + 1,
         call' = [call EXCEPT ![u] = NoThread],
         run' = IF u = "dispatcher" THEN "aborted" ELSE run,
         u = "dispatcher" => run # "acquire",
         UNCHANGED <<ledgerVars, dequeuer, item, receiverVars, next, permits, running,
                     ended, got, lost>>
  PROVE  AsyncInv'
  <1> USE DEF receiverVars
  <1>1. /\ call' \in [{"stream", "dispatcher"} -> Pool \cup {NoThread}]
        /\ \A v \in {"stream", "dispatcher"} : call'[v] = IF v = u THEN NoThread ELSE call[v]
    BY Present DEF CallsFit
  <1>2. /\ run' \in {"loop", "acquire", "wait", "returned", "aborted"}
        /\ run' = "acquire" <=> run = "acquire"
        /\ run' = "returned" => run = "returned"
        /\ call'["dispatcher"] # NoThread => run' = "loop"
    BY <1>1, Present DEF CallsFit
  <1>3. CallsFit'
    BY <1>1, <1>2, Present DEF CallsFit
  <1>4. Orphans' \subseteq Orphans \cup {call[u]}
    BY <1>1, Present DEF Orphans
  <1>5. IsFiniteSet(Orphans') /\ Cardinality(Orphans') <= Cardinality(Orphans) + 1
    <2>1. /\ IsFiniteSet(Orphans \cup {call[u]})
          /\ Cardinality(Orphans \cup {call[u]}) <= Cardinality(Orphans) + 1
      <3>1. IsFiniteSet(Orphans) /\ Cardinality(Orphans) \in Nat
        BY Sizes
      <3>2. /\ IsFiniteSet(Orphans \cup {call[u]})
            /\ Cardinality(Orphans \cup {call[u]})
                 = IF call[u] \in Orphans THEN Cardinality(Orphans) ELSE Cardinality(Orphans) + 1
        BY <3>1, FS_AddElement
      <3> QED
        BY <3>1, <3>2
    <2>2. /\ IsFiniteSet(Orphans')
          /\ Cardinality(Orphans') <= Cardinality(Orphans \cup {call[u]})
      BY <1>4, <2>1, FS_Subset
    <2>3. Cardinality(Orphans') \in Nat /\ Cardinality(Orphans \cup {call[u]}) \in Nat
      BY <2>1, <2>2, FS_CardinalityType
    <2> QED
      BY <2>1, <2>2, <2>3, Sizes
  <1>6. giveUps' \in 0 .. MaxGiveUps /\ giveUps' \in Nat
    BY Present, AsyncAssumption
  <1>7. ReceiverLoses' = ReceiverLoses
    BY DEF ReceiverLoses
  <1>8. LossesBounded' /\ Cardinality(lost') <= giveUps' + (IF rx' = "open" THEN 0 ELSE Capacity + 1)
    <2>1. Cardinality(lost') + Cardinality(Orphans') <= Cardinality(lost) + Cardinality(Orphans) + 1
      <3>1. Cardinality(Orphans') \in Nat
        BY <1>5, FS_CardinalityType
      <3> QED
        BY <1>5, <3>1, Sizes
    <2>2. giveUps + ReceiverLoses + 1 <= giveUps' + ReceiverLoses'
      BY <1>7, LosesNat, Sizes
    <2> QED
      BY <1>5, <1>6, <2>1, <2>2, Sizes, LossesHold
  <1>9. HandlersGated'
    BY <1>2, HandlersStay
  <1>10. \A v \in DOMAIN call : call'[v] \in {call[v], NoThread}
    BY <1>1, Present
  <1> QED
    BY <1>2, <1>3, <1>6, <1>8, <1>9, <1>10, Present, PhaseKeeps

\* Dispatcher::run returns: it has collected as many permits as it asked for, so no
\* more handlers run than are left of the limit.
LEMMA ReturnKeeps == ASSUME AsyncInv, Return PROVE AsyncInv'
  <1> USE DEF receiverVars
  <1>1. /\ run = "wait" /\ run' = "returned" /\ permits >= WaitFor
        /\ ended' = ended \cup {"dispatcher"}
        /\ UNCHANGED <<ledgerVars, dequeuer, item, receiverVars, call, next, permits,
                       running, got, lost, giveUps>>
    BY DEF Return
  <1>2. CallsFit' /\ Orphans' = Orphans /\ ReceiverLoses' = ReceiverLoses
    BY <1>1, Present DEF CallsFit, Orphans, ReceiverLoses
  <1>3. LossesBounded' /\ Cardinality(lost') <= giveUps' + (IF rx' = "open" THEN 0 ELSE Capacity + 1)
    BY <1>1, <1>2, LosesNat, LossesStay
  <1>4. HandlersGated'
    <2>1. Cardinality(running) + permits = Limit
      BY DEF AsyncInv, HandlersGated
    <2>2. PICK w \in Nat : w = WaitFor /\ w = Limit % U32
      BY Parameters
    <2>3. Cardinality(running) <= Limit - w
      BY <1>1, <2>1, <2>2, Parameters, Sizes
    <2>4. /\ Cardinality(running') + permits' = Limit
          /\ run' = "returned" => Cardinality(running') <= Limit - (Limit % U32)
      BY <1>1, <2>1, <2>2, <2>3
    <2> QED
      BY <2>4, Zenon DEF HandlersGated, Limit
  <1>5. ended' \subseteq Users
    BY <1>1, Present DEF Users
  <1> QED
    BY <1>1, <1>2, <1>3, <1>4, <1>5, Present, PhaseKeeps

-----------------------------------------------------------------------------
(* Steps that move a task. *)

\* A thread lets go of its task.
LEMMA ItemGone ==
  ASSUME AsyncInv, NEW t \in Threads, item[t] # 0, item' = [item EXCEPT ![t] = 0]
  PROVE  /\ item' \in [Threads -> {0} \cup DOMAIN job] /\ item'[t] = 0
         /\ \A s \in Threads : item'[s] = IF s = t THEN 0 ELSE item[s]
         /\ Holding' = Holding \ {t} /\ IsFiniteSet(Holding')
         /\ Cardinality(Holding) = Cardinality(Holding') + 1
         /\ Cardinality(Holding') \in Nat
         /\ item[t] \in Delivered /\ item[t] \in DOMAIN job
         /\ \A s \in Holding' : item'[s] = item[s] /\ s \in Holding /\ item[s] # item[t]
  <1>1. /\ item' \in [Threads -> {0} \cup DOMAIN job] /\ item'[t] = 0
        /\ \A s \in Threads : item'[s] = IF s = t THEN 0 ELSE item[s]
    BY Present
  <1>2. Holding' = Holding \ {t} /\ t \in Holding
    BY <1>1 DEF Holding
  <1>3. IsFiniteSet(Holding') /\ Cardinality(Holding') = Cardinality(Holding) - 1
    BY <1>2, Sizes, FS_RemoveElement
  <1>4. Cardinality(Holding') \in Nat /\ Cardinality(Holding) = Cardinality(Holding') + 1
    BY <1>3, Sizes, FS_CardinalityType
  <1>5. item[t] \in Delivered /\ item[t] \in DOMAIN job
    BY <1>2, Present DEF AsyncInv, CallsServed
  <1>6. \A s \in Holding' : item'[s] = item[s] /\ s \in Holding /\ item[s] # item[t]
    BY <1>1, <1>2 DEF AsyncInv, TasksApart, Holding
  <1> QED
    BY <1>1, <1>2, <1>3, <1>4, <1>5, <1>6

LEMMA SameTasks ==
  ASSUME UNCHANGED ledgerVars
  PROVE  /\ Delivered' = Delivered /\ Queued' = Queued
         /\ \A x, y : Before(x, y)' <=> Before(x, y)
  BY DEF ledgerVars, Delivered, Queued, Ledger!Queued, Before, Ledger!SameQueue

\* OrderKept in terms of Before.
LEMMA OrderBefore ==
  OrderKept <=> \A u \in Users : \A i, j \in DOMAIN got[u] : i < j => Before(got[u][i], got[u][j])
  BY DEF OrderKept, Before

\* A thread takes a task from the scheduler.
LEMMA TakeKeeps ==
  ASSUME AsyncInv, NEW t \in Threads, NEW x \in Queued, Take(t, x)
  PROVE  AsyncInv'
  <1> USE DEF receiverVars, runVars
  <1>1. /\ dequeuer[t] = "scan" /\ dequeuer' = [dequeuer EXCEPT ![t] = "task"]
        /\ item' = [item EXCEPT ![t] = x]
        /\ \A y \in Queued : Ledger!SameQueue(x, y) => x <= y
        /\ status' = [y \in Ids |-> IF y \in {x} THEN "delivered" ELSE status[y]]
        /\ UNCHANGED <<mode, job, overdue, inside, receiverVars, call, runVars, ended, got,
                       lost, giveUps>>
    BY DEF Take, ThreadStep, Goes, Ledger!Deliver, Ledger!Settle, Queued
  <1>2. /\ x \in Ids /\ x \in DOMAIN job /\ x # 0 /\ status[x] = "queued"
        /\ \A y \in Ids : status'[y] = IF y = x THEN "delivered" ELSE status[y]
        /\ status' \in [Ids -> Fates]
    BY <1>1, Present DEF Queued, Ledger!Queued, AsyncInv, CallsServed, Fates
  <1>3. /\ Delivered' = Delivered \cup {x} /\ x \notin Delivered
        /\ Queued' = Queued \ {x} /\ x \in Nat
        /\ \A y, z : Before(y, z)' <=> Before(y, z)
    BY <1>1, <1>2, Sizes DEF Delivered, Queued, Ledger!Queued, Before, Ledger!SameQueue
  <1>4. /\ dequeuer' \in [Threads -> Phases] /\ item' \in [Threads -> {0} \cup DOMAIN job]
        /\ \A s \in Threads : /\ dequeuer'[s] = IF s = t THEN "task" ELSE dequeuer[s]
                              /\ item'[s] = IF s = t THEN x ELSE item[s]
    BY <1>1, <1>2, Present DEF Phases
  <1>5. Holding' = Holding \cup {t} /\ t \notin Holding
    BY <1>1, <1>2, <1>4, Present DEF Holding
  <1>6. Orphans' \subseteq Orphans /\ ReceiverLoses' = ReceiverLoses
    BY <1>1, <1>4, Parameters DEF Orphans, ReceiverLoses
  <1>7. LossesBounded' /\ Cardinality(lost') <= giveUps' + (IF rx' = "open" THEN 0 ELSE Capacity + 1)
    BY <1>1, <1>6, LosesNat, LossesStay
  <1>8. HandlersGated' /\ permits' \in 0 .. Limit
    BY <1>1, HandlersStay
  <1>9. AsyncTypeInv'
    <2>1. \A s \in Threads : item'[s] # 0 <=> dequeuer'[s] = "task"
      BY <1>2, <1>4, Present
    <2> QED
      BY <1>1, <1>4, <1>8, <2>1 DEF AsyncInv, AsyncTypeInv, Phases
  <1>10. CallsServed'
    <2>1. /\ \A u \in DOMAIN call' :
               call'[u] # NoThread => dequeuer'[call'[u]] \notin {"idle", "ended"}
          /\ \A s \in Pool : dequeuer'[s] # "ended"
          /\ call'["dispatcher"] # NoThread => run' = "loop"
      BY <1>1, <1>4, Parameters, Present DEF CallsFit
    <2>2. {item'[s] : s \in Holding'} \subseteq Delivered'
      BY <1>3, <1>4, <1>5 DEF AsyncInv, CallsServed, Holding
    <2>3. /\ ({next'} \ {0}) \cup lost' \cup running' \subseteq Delivered'
          /\ \A i \in DOMAIN channel' : channel'[i] \in Delivered'
          /\ \A u \in Users : \A i \in DOMAIN got'[u] : got'[u][i] \in Delivered'
      BY <1>1, <1>3 DEF AsyncInv, CallsServed
    <2>4. DOMAIN job' \subseteq Ids /\ \A y \in Ids : status'[y] = "none" <=> y \notin DOMAIN job'
      BY <1>1, <1>2 DEF AsyncInv, CallsServed
    <2> QED
      BY <1>2, <2>1, <2>2, <2>3, <2>4 DEF CallsServed
  <1>11. TasksApart'
    <2>1. \A s \in Holding : item[s] # x
      BY <1>3 DEF AsyncInv, CallsServed
    <2>2. /\ next # x /\ x \notin lost \cup running
          /\ \A i \in DOMAIN channel : channel[i] # x
      BY <1>2, <1>3 DEF AsyncInv, CallsServed
    <2> QED
      BY <1>1, <1>4, <1>5, <2>1, <2>2 DEF AsyncInv, TasksApart, Holding
  <1>12. TasksAccounted'
    <2>1. Cardinality(Holding') = Cardinality(Holding) + 1
      BY <1>5, Sizes, FS_AddElement
    <2>2. Cardinality(Delivered') = Cardinality(Delivered) + 1
      BY <1>3, Sizes, FS_AddElement
    <2>3. OnTheWay' = OnTheWay + 1 /\ Received' = Received
      BY <1>1, <2>1, Sizes DEF OnTheWay, Received
    <2>4. OnTheWay' + Received' + Cardinality(lost') = Cardinality(Delivered')
      <3>1. PICK o, r, l \in Nat : o = OnTheWay /\ r = Received /\ l = Cardinality(lost)
        BY PlacesNat, Sizes
      <3>2. OnTheWay' = o + 1 /\ Received' = r /\ Cardinality(lost') = l
        BY <1>1, <2>3, <3>1
      <3>3. Cardinality(Delivered') = (o + r + l) + 1
        BY <2>2, <3>1, PlacesNat
      <3> QED
        BY <3>2, <3>3
    <2> QED
      BY <1>7, <1>9, <1>10, <2>4, Counted
  <1>13. OrderKept'
    BY <1>1, <1>3 DEF AsyncInv, OrderKept, Ledger!SameQueue
  <1>14. OrderOnTheWay'
    <2>1. \A y \in Delivered : Before(y, x)
      BY DEF AsyncInv, OrderOnTheWay
    <2>2. \A y \in Queued' : Before(x, y)
      <3>1. Queued \subseteq Nat
        BY Sizes DEF Queued, Ledger!Queued, Ids
      <3> QED
        BY <1>1, <1>3, <3>1 DEF Before
    <2>3. \A y \in Delivered', z \in Queued' : Before(y, z)'
      BY <1>3, <2>2 DEF AsyncInv, OrderOnTheWay
    <2>4. /\ \A i \in DOMAIN channel : channel[i] \in Delivered
          /\ \A u \in Users : \A i \in DOMAIN got[u] : got[u][i] \in Delivered
          /\ \A u \in DOMAIN call : call[u] # NoThread => call[u] \in Threads
      BY Parameters, Present DEF AsyncInv, CallsServed, CallsFit
    <2> QED
      BY <1>1, <1>3, <1>4, <2>1, <2>3, <2>4, Parameters, Present DEF AsyncInv, OrderOnTheWay, Users
  <1> QED
    BY <1>7, <1>8, <1>9, <1>10, <1>11, <1>12, <1>13, <1>14 DEF AsyncInv

\* The worker sends its task into the channel.
LEMMA SendKeeps == ASSUME AsyncInv, BlockingSend PROVE AsyncInv'
  <1> USE DEF receiverVars, runVars
  <1> DEFINE x == item[Worker]
  <1>1. /\ rx = "open" /\ Len(channel) < Capacity /\ channel' = Append(channel, x)
        /\ dequeuer[Worker] = "task" /\ dequeuer' = [dequeuer EXCEPT ![Worker] = "idle"]
        /\ item' = [item EXCEPT ![Worker] = 0]
        /\ UNCHANGED <<ledgerVars, rx, call, runVars, ended, got, giveUps, lost>>
    BY DEF BlockingSend, HandOver, HasRoom, Put, Goes
  <1>2. /\ Worker \in Threads /\ x # 0 /\ x \in DOMAIN job /\ x \in Delivered
        /\ Worker \in Holding
    BY <1>1, Parameters, Present, ItemGone DEF Holding
  <1>3. /\ item' \in [Threads -> {0} \cup DOMAIN job] /\ item'[Worker] = 0
        /\ \A s \in Threads : item'[s] = IF s = Worker THEN 0 ELSE item[s]
        /\ Cardinality(Holding) = Cardinality(Holding') + 1
        /\ Cardinality(Holding') \in Nat
        /\ \A s \in Holding' : item'[s] = item[s] /\ s \in Holding /\ item[s] # x
    BY <1>1, <1>2, ItemGone
  <1>4. /\ Len(channel') = Len(channel) + 1 /\ channel' \in Seq(DOMAIN job)
        /\ DOMAIN channel' = DOMAIN channel \cup {Len(channel) + 1}
        /\ Len(channel) + 1 \notin DOMAIN channel
        /\ \A i \in DOMAIN channel : channel'[i] = channel[i] /\ i < Len(channel) + 1
        /\ channel'[Len(channel) + 1] = x
    BY <1>1, <1>2, Sizes
  <1>5. /\ dequeuer' \in [Threads -> Phases]
        /\ \A s \in Threads : dequeuer'[s] = IF s = Worker THEN "idle" ELSE dequeuer[s]
    BY <1>1, Present DEF Phases
  <1>6. /\ Delivered' = Delivered /\ Queued' = Queued
        /\ \A y, z : Before(y, z)' <=> Before(y, z)
    BY <1>1, SameTasks
  <1>7. Orphans' \subseteq Orphans /\ ReceiverLoses' = ReceiverLoses
    BY <1>1, <1>5, Parameters DEF Orphans, ReceiverLoses
  <1>8. LossesBounded' /\ Cardinality(lost') <= giveUps' + (IF rx' = "open" THEN 0 ELSE Capacity + 1)
    BY <1>1, <1>7, LosesNat, LossesStay
  <1>9. HandlersGated' /\ permits' \in 0 .. Limit
    BY <1>1, HandlersStay
  <1>10. AsyncTypeInv'
    <2>1. \A s \in Threads : item'[s] # 0 <=> dequeuer'[s] = "task"
      BY <1>3, <1>5, Present
    <2>2. Len(channel') <= Capacity
      BY <1>1, <1>4, Sizes, Parameters
    <2> QED
      BY <1>1, <1>3, <1>4, <1>5, <1>9, <2>1, <2>2 DEF AsyncInv, AsyncTypeInv, Phases, ledgerVars
  <1>11. CallsServed'
    <2>1. /\ \A u \in DOMAIN call' :
               call'[u] # NoThread => dequeuer'[call'[u]] \notin {"idle", "ended"}
          /\ \A s \in Pool : dequeuer'[s] # "ended"
          /\ call'["dispatcher"] # NoThread => run' = "loop"
      BY <1>1, <1>5, Parameters, Present DEF CallsFit
    <2>2. {item'[s] : s \in Holding'} \subseteq Delivered'
      BY <1>3, <1>6 DEF AsyncInv, CallsServed
    <2>3. \A i \in DOMAIN channel' : channel'[i] \in Delivered'
      BY <1>2, <1>4, <1>6 DEF AsyncInv, CallsServed
    <2> QED
      BY <1>1, <1>6, <2>1, <2>2, <2>3 DEF AsyncInv, CallsServed, ledgerVars
  <1>12. TasksApart'
    <2>1. \A i \in DOMAIN channel : channel[i] # x
      BY <1>2 DEF AsyncInv, TasksApart
    <2>2. x # next /\ x \notin lost \cup running
      BY <1>2 DEF AsyncInv, TasksApart
    <2>3. \A i, j \in DOMAIN channel' : channel'[i] = channel'[j] => i = j
      BY <1>4, <2>1 DEF AsyncInv, TasksApart
    <2>4. \A i \in DOMAIN channel' :
            /\ \A s \in Holding' : item'[s] # channel'[i]
            /\ channel'[i] # next /\ channel'[i] \notin lost \cup running
      BY <1>3, <1>4, <2>2 DEF AsyncInv, TasksApart
    <2>5. /\ \A s, t \in Holding' : item'[s] = item'[t] => s = t
          /\ \A s \in Holding' : item'[s] # next /\ item'[s] \notin lost \cup running
          /\ next \notin lost \cup running
      BY <1>3 DEF AsyncInv, TasksApart
    <2> QED
      BY <1>1, <2>3, <2>4, <2>5 DEF TasksApart
  <1>13. TasksAccounted'
    <2>1. OnTheWay' = OnTheWay /\ Received' = Received
      BY <1>1, <1>3, <1>4, Sizes DEF OnTheWay, Received
    <2>2. OnTheWay' + Received' + Cardinality(lost') = Cardinality(Delivered')
      BY <1>1, <1>6, <2>1, PlacesNat
    <2> QED
      BY <1>8, <1>10, <1>11, <2>2, Counted
  <1>14. OrderKept'
    BY <1>1 DEF AsyncInv, OrderKept, Ledger!SameQueue, ledgerVars
  <1>15. OrderOnTheWay'
    <2>1. \A i \in DOMAIN channel : Before(channel[i], x)
      BY <1>2 DEF AsyncInv, OrderOnTheWay
    <2>2. \A k \in DOMAIN got["receiver"] : Before(got["receiver"][k], x)
      BY <1>2 DEF AsyncInv, OrderOnTheWay
    <2>3. \A i, j \in DOMAIN channel' : i < j => Before(channel'[i], channel'[j])
      <3> SUFFICES ASSUME NEW i \in DOMAIN channel', NEW j \in DOMAIN channel', i < j
                   PROVE  Before(channel'[i], channel'[j])
        OBVIOUS
      <3>1. i \in DOMAIN channel
        BY <1>4, Sizes
      <3>2. CASE j \in DOMAIN channel
        BY <1>4, <3>1, <3>2 DEF AsyncInv, OrderOnTheWay
      <3>3. CASE j = Len(channel) + 1
        BY <1>4, <2>1, <3>1, <3>3
      <3> QED
        BY <1>4, <3>2, <3>3
    <2>4. \A i \in DOMAIN channel' :
            \A k \in DOMAIN got["receiver"] : Before(got["receiver"][k], channel'[i])
      BY <1>4, <2>2 DEF AsyncInv, OrderOnTheWay
    <2>5. \A u \in DOMAIN call :
            call[u] # NoThread => call[u] \in Threads /\ call[u] # Worker
      BY Parameters, Present DEF CallsFit
    <2>6. \A u \in DOMAIN call : call[u] # NoThread /\ item'[call[u]] # 0 =>
            \A k \in DOMAIN got[u] : Before(got[u][k], item'[call[u]])
      BY <1>3, <2>5 DEF AsyncInv, OrderOnTheWay
    <2>7. /\ \A y \in Delivered, z \in Queued : Before(y, z)
          /\ next # 0 =>
               \A k \in DOMAIN got["dispatcher"] : Before(got["dispatcher"][k], next)
      BY DEF AsyncInv, OrderOnTheWay
    <2> QED
      BY <1>1, <1>3, <1>6, <2>3, <2>4, <2>6, <2>7 DEF OrderOnTheWay
  <1> QED
    BY <1>8, <1>9, <1>10, <1>11, <1>12, <1>13, <1>14, <1>15 DEF AsyncInv

\* A thread loses its task: an orphan, or the worker of a dropped receiver.
LEMMA ThreadLoses ==
  ASSUME AsyncInv, NEW t \in Threads, NEW s \in {"idle", "ended"}, dequeuer[t] = "task",
         \/ t \in Pool /\ s = "idle" /\ \A u \in DOMAIN call : call[u] # t
         \/ t = Worker /\ s = "ended" /\ rx # "open",
         dequeuer' = [dequeuer EXCEPT ![t] = s], item' = [item EXCEPT ![t] = 0],
         lost' = lost \cup {item[t]},
         UNCHANGED <<ledgerVars, receiverVars, call, runVars, ended, got, giveUps>>
  PROVE  AsyncInv'
  <1> USE DEF receiverVars, runVars
  <1> DEFINE x == item[t]
  <1>1. x # 0 /\ t \in Holding
    BY Present DEF Holding
  <1>2. /\ item' \in [Threads -> {0} \cup DOMAIN job] /\ item'[t] = 0
        /\ \A z \in Threads : item'[z] = IF z = t THEN 0 ELSE item[z]
        /\ Cardinality(Holding) = Cardinality(Holding') + 1
        /\ Cardinality(Holding') \in Nat
        /\ \A z \in Holding' : item'[z] = item[z] /\ z \in Holding /\ item[z] # x
        /\ x \in Delivered /\ x \in DOMAIN job
    BY <1>1, ItemGone
  <1>3. /\ dequeuer' \in [Threads -> Phases]
        /\ \A z \in Threads : dequeuer'[z] = IF z = t THEN s ELSE dequeuer[z]
    BY Present DEF Phases
  <1>4. /\ Delivered' = Delivered /\ Queued' = Queued
        /\ \A y, z : Before(y, z)' <=> Before(y, z)
    BY SameTasks
  <1>5. x # next /\ x \notin lost \cup running /\ \A i \in DOMAIN channel : channel[i] # x
    BY <1>1 DEF AsyncInv, TasksApart
  <1>6. Cardinality(lost') = Cardinality(lost) + 1 /\ IsFiniteSet(lost')
    BY <1>5, Sizes, FS_AddElement
  <1>7. LossesBounded' /\ Cardinality(lost') <= giveUps' + (IF rx' = "open" THEN 0 ELSE Capacity + 1)
    <2>1. CASE t \in Pool
      <3>1. Orphans' = Orphans \ {t} /\ t \in Orphans
        BY <1>3, <2>1, Parameters DEF Orphans
      <3>2. IsFiniteSet(Orphans') /\ Cardinality(Orphans') = Cardinality(Orphans) - 1
        BY <3>1, Sizes, FS_RemoveElement
      <3>3. ReceiverLoses' = ReceiverLoses
        BY <1>3, <2>1, Parameters DEF ReceiverLoses
      <3>4. Cardinality(lost') + Cardinality(Orphans') <= Cardinality(lost) + Cardinality(Orphans) + 0
        BY <1>6, <3>2, Sizes
      <3>5. giveUps + ReceiverLoses + 0 <= giveUps' + ReceiverLoses'
        BY <3>3, LosesNat, Sizes
      <3> QED
        BY <1>6, <3>2, <3>4, <3>5, Sizes, LossesHold
    <2>2. CASE t = Worker
      <3>1. Orphans' = Orphans
        BY <1>3, <2>2, Parameters DEF Orphans
      <3>2. ReceiverLoses' = ReceiverLoses + 1
        BY <1>3, <2>2, Parameters DEF ReceiverLoses
      <3>3. Cardinality(lost') + Cardinality(Orphans') <= Cardinality(lost) + Cardinality(Orphans) + 1
        BY <1>6, <3>1, Sizes
      <3>4. giveUps + ReceiverLoses + 1 <= giveUps' + ReceiverLoses'
        BY <3>2, LosesNat, Sizes
      <3> QED
        BY <1>6, <3>1, <3>3, <3>4, Sizes, LossesHold
    <2> QED
      BY <2>1, <2>2
  <1>8. HandlersGated' /\ permits' \in 0 .. Limit
    BY HandlersStay
  <1>9. AsyncTypeInv'
    <2>1. \A z \in Threads : item'[z] # 0 <=> dequeuer'[z] = "task"
      BY <1>2, <1>3, Present
    <2>2. lost' \subseteq DOMAIN job
      BY <1>2 DEF AsyncInv, AsyncTypeInv
    <2> QED
      BY <1>2, <1>3, <1>8, <2>1, <2>2 DEF AsyncInv, AsyncTypeInv, Phases, ledgerVars
  <1>10. CallsServed'
    <2>1. /\ \A u \in DOMAIN call' :
               call'[u] # NoThread => dequeuer'[call'[u]] \notin {"idle", "ended"}
          /\ \A z \in Pool : dequeuer'[z] # "ended"
          /\ call'["dispatcher"] # NoThread => run' = "loop"
      BY <1>3, Parameters, Present DEF CallsFit
    <2>2. {item'[z] : z \in Holding'} \subseteq Delivered' /\ lost' \subseteq Delivered'
      BY <1>2, <1>4 DEF AsyncInv, CallsServed
    <2> QED
      BY <1>4, <2>1, <2>2 DEF AsyncInv, CallsServed, ledgerVars
  <1>11. TasksApart'
    <2>1. /\ \A y, z \in Holding' : item'[y] = item'[z] => y = z
          /\ \A z \in Holding' : item'[z] # next /\ item'[z] \notin lost' \cup running
          /\ next \notin lost' \cup running
      BY <1>2, <1>5 DEF AsyncInv, TasksApart
    <2>2. \A i \in DOMAIN channel :
            /\ \A z \in Holding' : item'[z] # channel[i]
            /\ channel[i] # next /\ channel[i] \notin lost' \cup running
      BY <1>2, <1>5 DEF AsyncInv, TasksApart
    <2> QED
      BY <2>1, <2>2 DEF AsyncInv, TasksApart
  <1>12. TasksAccounted'
    <2>1. OnTheWay = OnTheWay' + 1 /\ Received' = Received /\ OnTheWay' \in Nat
      <3>1. PICK h, c, n \in Nat : /\ h = Cardinality(Holding') /\ c = Len(channel)
                                   /\ n = (IF next = 0 THEN 0 ELSE 1)
        BY <1>2, Sizes
      <3>2. OnTheWay = (h + 1) + c + n
        BY <1>2, <3>1 DEF OnTheWay
      <3>3. OnTheWay' = h + c + n
        BY <1>2, <3>1 DEF OnTheWay
      <3>4. Received' = Received
        BY <1>2 DEF Received
      <3> QED
        BY <3>2, <3>3, <3>4
    <2>2. OnTheWay' + Received' + Cardinality(lost') = Cardinality(Delivered')
      BY <1>4, <1>6, <2>1, PlacesNat, Sizes
    <2> QED
      BY <1>7, <1>9, <1>10, <2>2, Counted
  <1>13. OrderKept'
    BY DEF AsyncInv, OrderKept, Ledger!SameQueue, ledgerVars
  <1>14. OrderOnTheWay'
    <2>1. \A u \in DOMAIN call : call[u] # NoThread => call[u] \in Threads
      BY Parameters, Present DEF CallsFit
    <2>2. \A u \in DOMAIN call : call[u] # NoThread /\ item'[call[u]] # 0 =>
            \A k \in DOMAIN got[u] : Before(got[u][k], item'[call[u]])
      BY <1>2, <2>1 DEF AsyncInv, OrderOnTheWay
    <2>3. item'[Worker] # 0 => item'[Worker] = item[Worker]
      BY <1>2, Parameters
    <2> QED
      BY <1>4, <2>2, <2>3 DEF AsyncInv, OrderOnTheWay
  <1> QED
    BY <1>7, <1>8, <1>9, <1>10, <1>11, <1>12, <1>13, <1>14 DEF AsyncInv

\* A channel holds as many tasks as it is long.
LEMMA ChannelContents ==
  ASSUME AsyncInv
  PROVE  LET C == {channel[i] : i \in DOMAIN channel}
         IN  /\ IsFiniteSet(C) /\ Cardinality(C) = Len(channel)
             /\ C \subseteq Delivered /\ C \cap lost = {}
  <1> DEFINE C == {channel[i] : i \in DOMAIN channel}
             f == [i \in 1 .. Len(channel) |-> channel[i]]
  <1>1. Len(channel) \in Nat /\ DOMAIN channel = 1 .. Len(channel)
    BY Sizes
  <1>2. IsFiniteSet(1 .. Len(channel)) /\ Cardinality(1 .. Len(channel)) = Len(channel)
    <2>1. PICK n \in Nat : n = Len(channel)
      BY <1>1
    <2>2. IsFiniteSet(1 .. n) /\ Cardinality(1 .. n) = IF 1 > n THEN 0 ELSE n - 1 + 1
      BY FS_Interval
    <2> QED
      BY <2>1, <2>2
  <1>3. f \in Surjection(1 .. Len(channel), C)
    BY <1>1 DEF Surjection
  <1>4. f \in Injection(1 .. Len(channel), C)
    <2>1. \A i, j \in 1 .. Len(channel) : f[i] = f[j] => i = j
      BY <1>1 DEF AsyncInv, TasksApart
    <2>2. f \in [1 .. Len(channel) -> C]
      BY <1>1
    <2> HIDE DEF C, f
    <2> QED
      BY <2>1, <2>2 DEF Injection, IsInjective
  <1>5. C \subseteq Delivered /\ C \cap lost = {}
    BY DEF AsyncInv, CallsServed, TasksApart
  <1> HIDE DEF C, f
  <1>6. IsFiniteSet(C) /\ Cardinality(C) = Len(channel)
    BY <1>2, <1>3, <1>4, FS_Surjection
  <1> QED
    BY <1>5, <1>6 DEF C

\* The receiver goes, and what its channel holds with it.
LEMMA DropRxKeeps == ASSUME AsyncInv, DropRx PROVE AsyncInv'
  <1> USE DEF receiverVars, runVars
  <1> DEFINE C == {channel[i] : i \in DOMAIN channel}
  <1>1. /\ rx = "closed" /\ rx' = "dropped" /\ channel' = <<>> /\ lost' = lost \cup C
        /\ UNCHANGED <<ledgerVars, dequeuer, item, call, runVars, ended, got, giveUps>>
    BY DEF DropRx, ReceiverGoes
  <1>2. /\ IsFiniteSet(C) /\ Cardinality(C) = Len(channel)
        /\ C \subseteq Delivered /\ C \cap lost = {}
    BY ChannelContents
  <1>3. IsFiniteSet(lost') /\ Cardinality(lost') = Cardinality(lost) + Len(channel)
    <2> HIDE DEF C
    <2>1. /\ IsFiniteSet(lost \cup C)
          /\ Cardinality(lost \cup C) = Cardinality(lost) + Cardinality(C) - Cardinality(lost \cap C)
      BY <1>2, Sizes, FS_Union
    <2>2. Cardinality(lost \cap C) = 0
      BY <1>2, FS_EmptySet
    <2> QED
      BY <1>1, <1>2, <2>1, <2>2, Sizes
  <1>4. /\ Delivered' = Delivered /\ Queued' = Queued /\ Holding' = Holding
        /\ \A y, z : Before(y, z)' <=> Before(y, z)
    BY <1>1, SameTasks DEF Holding
  <1>5. LossesBounded' /\ Cardinality(lost') <= giveUps' + (IF rx' = "open" THEN 0 ELSE Capacity + 1)
    <2>1. Orphans' = Orphans /\ Len(channel) <= Capacity /\ Capacity \in Nat
      BY <1>1, Parameters DEF Orphans, AsyncInv, AsyncTypeInv
    <2>2. ReceiverLoses' = ReceiverLoses + Capacity
      BY <1>1, Parameters DEF ReceiverLoses
    <2>3. Cardinality(lost') + Cardinality(Orphans')
            <= Cardinality(lost) + Cardinality(Orphans) + Capacity
      BY <1>3, <2>1, Sizes
    <2>4. giveUps + ReceiverLoses + Capacity <= giveUps' + ReceiverLoses'
      BY <1>1, <2>1, <2>2, LosesNat, Sizes
    <2> QED
      BY <1>1, <1>3, <2>1, <2>3, <2>4, Sizes, LossesHold
  <1>6. HandlersGated' /\ permits' \in 0 .. Limit
    BY <1>1, HandlersStay
  <1>7. AsyncTypeInv'
    <2>1. /\ channel' \in Seq(DOMAIN job) /\ Len(channel') = 0 /\ DOMAIN channel' = {}
          /\ Len(channel') <= Capacity
      BY <1>1, Parameters
    <2>2. lost' \subseteq DOMAIN job
      BY <1>1 DEF AsyncInv, AsyncTypeInv
    <2> QED
      BY <1>1, <1>6, <2>1, <2>2 DEF AsyncInv, AsyncTypeInv, ledgerVars
  <1>8. CallsServed'
    BY <1>1, <1>2, <1>4 DEF AsyncInv, CallsServed, ledgerVars
  <1>9. TasksApart'
    <2>1. \A t \in Holding : item[t] \notin C
      BY DEF AsyncInv, TasksApart
    <2>2. next \notin C
      BY DEF AsyncInv, TasksApart
    <2> QED
      BY <1>1, <1>4, <2>1, <2>2 DEF AsyncInv, TasksApart
  <1>10. TasksAccounted'
    <2>1. OnTheWay = OnTheWay' + Len(channel) /\ Received' = Received /\ OnTheWay' \in Nat
      <3>1. PICK h, n \in Nat : h = Cardinality(Holding) /\ n = (IF next = 0 THEN 0 ELSE 1)
        BY Sizes
      <3>2. Len(channel') = 0 /\ Len(channel) \in Nat
        BY <1>1, Sizes
      <3>3. OnTheWay = h + Len(channel) + n /\ OnTheWay' = h + 0 + n
        BY <1>1, <1>4, <3>1, <3>2 DEF OnTheWay
      <3> QED
        BY <1>1, <3>2, <3>3 DEF Received
    <2>2. OnTheWay' + Received' + Cardinality(lost') = Cardinality(Delivered')
      BY <1>3, <1>4, <2>1, PlacesNat, Sizes
    <2> QED
      BY <1>5, <1>7, <1>8, <2>2, Counted
  <1>11. OrderKept'
    BY <1>1 DEF AsyncInv, OrderKept, Ledger!SameQueue, ledgerVars
  <1>12. OrderOnTheWay'
    BY <1>1, <1>4 DEF AsyncInv, OrderOnTheWay
  <1> QED
    BY <1>5, <1>6, <1>7, <1>8, <1>9, <1>10, <1>11, <1>12 DEF AsyncInv

\* A user gets a task: it comes after all the user got.
Handed(u, x) ==
  /\ got' \in [Users -> Seq(DOMAIN job)]
  /\ \A v \in Users \ {u} : got'[v] = got[v]
  /\ \A k \in DOMAIN got'[u] :
       (k \in DOMAIN got[u] /\ got'[u][k] = got[u][k]) \/ got'[u][k] = x
  /\ Received' = Received + 1
  /\ OrderKept'
  /\ \A v \in Users : \A k \in DOMAIN got'[v] : got'[v][k] \in Delivered

LEMMA GotMore ==
  ASSUME AsyncInv, NEW u \in Users, NEW x \in Delivered,
         got' = [got EXCEPT ![u] = Append(@, x)],
         \A k \in DOMAIN got[u] : Before(got[u][k], x), UNCHANGED ledgerVars
  PROVE  Handed(u, x)
  <1>1. x \in DOMAIN job
    BY DEF AsyncInv, CallsServed, Delivered
  <1>2. /\ got' \in [Users -> Seq(DOMAIN job)]
        /\ \A v \in Users \ {u} : got'[v] = got[v]
        /\ got'[u] = Append(got[u], x)
    BY <1>1 DEF AsyncInv, AsyncTypeInv
  <1>3. /\ Len(got'[u]) = Len(got[u]) + 1 /\ Len(got[u]) \in Nat
        /\ DOMAIN got[u] = 1 .. Len(got[u])
        /\ DOMAIN got'[u] = 1 .. Len(got[u]) + 1
        /\ \A k \in DOMAIN got[u] : got'[u][k] = got[u][k]
        /\ got'[u][Len(got[u]) + 1] = x
    BY <1>1, <1>2, Sizes
  <1>4. \A k \in DOMAIN got'[u] :
          (k \in DOMAIN got[u] /\ got'[u][k] = got[u][k]) \/ got'[u][k] = x
    BY <1>3
  <1>5. Received' = Received + 1
    <2>1. \A v \in Users : Len(got[v]) \in Nat
      BY Sizes
    <2>2. PICK a, b, d \in Nat : /\ a = Len(got["receiver"]) /\ b = Len(got["stream"])
                                 /\ d = Len(got["dispatcher"])
      BY Sizes
    <2>3. /\ Len(got'["receiver"]) = IF u = "receiver" THEN a + 1 ELSE a
          /\ Len(got'["stream"]) = IF u = "stream" THEN b + 1 ELSE b
          /\ Len(got'["dispatcher"]) = IF u = "dispatcher" THEN d + 1 ELSE d
      BY <1>2, <1>3, <2>2 DEF Users
    <2>4. Received = a + b + d
      BY <2>2 DEF Received
    <2>5. /\ u = "receiver" => Received' = (a + 1) + b + d
          /\ u = "stream" => Received' = a + (b + 1) + d
          /\ u = "dispatcher" => Received' = a + b + (d + 1)
      BY <2>3 DEF Received
    <2> QED
      BY <2>4, <2>5 DEF Users
  <1>6. OrderKept'
    <2>1. \A i, j \in DOMAIN got'[u] : i < j => Before(got'[u][i], got'[u][j])
      <3> SUFFICES ASSUME NEW i \in DOMAIN got'[u], NEW j \in DOMAIN got'[u], i < j
                   PROVE  Before(got'[u][i], got'[u][j])
        OBVIOUS
      <3>1. i \in DOMAIN got[u]
        BY <1>3
      <3>2. CASE j \in DOMAIN got[u]
        BY <1>3, <3>1, <3>2, OrderBefore DEF AsyncInv
      <3>3. CASE j = Len(got[u]) + 1
        BY <1>3, <3>1, <3>3
      <3> QED
        BY <1>3, <3>2, <3>3
    <2>2. \A v \in Users : \A i, j \in DOMAIN got'[v] : i < j => Before(got'[v][i], got'[v][j])
      BY <1>2, <2>1, OrderBefore DEF AsyncInv
    <2>3. job' = job
      BY DEF ledgerVars
    <2>4. \A v \in Users : \A i, j \in DOMAIN got'[v] :
             i < j /\ job[got'[v][i]].tenant = job[got'[v][j]].tenant
                   /\ job[got'[v][i]].prio = job[got'[v][j]].prio => got'[v][i] < got'[v][j]
      BY <2>2 DEF Before, Ledger!SameQueue
    <2> QED
      BY <2>3, <2>4 DEF OrderKept, Ledger!SameQueue
  <1>7. \A v \in Users : \A k \in DOMAIN got'[v] : got'[v][k] \in Delivered
    BY <1>2, <1>4 DEF AsyncInv, CallsServed
  <1> QED
    BY <1>2, <1>4, <1>5, <1>6, <1>7 DEF Handed

\* The receiver's user gets the head of the channel.
LEMMA RecvKeeps ==
  ASSUME AsyncInv, channel # <<>>, channel' = Tail(channel),
         got' = [got EXCEPT !["receiver"] = Append(@, Head(channel))],
         UNCHANGED <<ledgerVars, dequeuer, item, rx, call, runVars, ended, lost, giveUps>>
  PROVE  AsyncInv'
  <1> USE DEF receiverVars, runVars
  <1> DEFINE x == channel[1]
  <1>1. /\ Len(channel) \in Nat \ {0} /\ DOMAIN channel = 1 .. Len(channel)
        /\ Head(channel) = x /\ 1 \in DOMAIN channel
        /\ channel' \in Seq(DOMAIN job) /\ Len(channel) = Len(channel') + 1
        /\ Len(channel') \in Nat /\ DOMAIN channel' = 1 .. Len(channel')
        /\ \A i \in DOMAIN channel' : i + 1 \in DOMAIN channel /\ i + 1 # 1
                                      /\ channel'[i] = channel[i + 1]
    <2>1. channel \in Seq(DOMAIN job) /\ Len(channel) \in Nat /\ DOMAIN channel = 1 .. Len(channel)
      BY Sizes
    <2>2. Len(channel) # 0 /\ Head(channel) = x
      BY <2>1
    <2>3. /\ channel' \in Seq(DOMAIN job) /\ Len(channel') = Len(channel) - 1
          /\ DOMAIN channel' = 1 .. Len(channel')
          /\ \A i \in 1 .. Len(channel') : channel'[i] = channel[i + 1]
      BY <2>1
    <2> HIDE DEF x
    <2>4. PICK n \in Nat : n = Len(channel') /\ Len(channel) = n + 1
      <3>1. PICK m \in Nat : m = Len(channel)
        BY <2>1
      <3>2. m - 1 \in Nat /\ m = (m - 1) + 1 /\ Len(channel') = m - 1
        BY <2>2, <2>3, <3>1
      <3> QED
        BY <3>1, <3>2
    <2>5. \A i \in 1 .. n : i + 1 \in 1 .. n + 1 /\ i + 1 # 1
      OBVIOUS
    <2>6. \A i \in DOMAIN channel' : i + 1 \in DOMAIN channel /\ i + 1 # 1
                                     /\ channel'[i] = channel[i + 1]
      BY <2>1, <2>3, <2>4, <2>5, Zenon
    <2>7. 1 \in DOMAIN channel /\ Len(channel) \in Nat \ {0} /\ Len(channel') \in Nat
      BY <2>1, <2>4
    <2> QED
      BY <2>1, <2>2, <2>3, <2>4, <2>6, <2>7, Zenon
  <1>2. /\ x \in Delivered /\ \A k \in DOMAIN got["receiver"] : Before(got["receiver"][k], x)
        /\ "receiver" \in Users
    BY <1>1, Sizes DEF AsyncInv, CallsServed, OrderOnTheWay
  <1>3. /\ got' \in [Users -> Seq(DOMAIN job)]
        /\ \A v \in Users \ {"receiver"} : got'[v] = got[v]
        /\ \A k \in DOMAIN got'["receiver"] :
             \/ k \in DOMAIN got["receiver"] /\ got'["receiver"][k] = got["receiver"][k]
             \/ got'["receiver"][k] = x
        /\ Received' = Received + 1
        /\ OrderKept'
        /\ \A v \in Users : \A k \in DOMAIN got'[v] : got'[v][k] \in Delivered
    <2> HIDE DEF x
    <2>1. got' = [got EXCEPT !["receiver"] = Append(@, x)] /\ UNCHANGED ledgerVars
      BY <1>1
    <2>2. Handed("receiver", x)
      BY <1>2, <2>1, GotMore
    <2> QED
      BY <2>2 DEF Handed
  <1>4. /\ Delivered' = Delivered /\ Queued' = Queued /\ Holding' = Holding
        /\ \A y, z : Before(y, z)' <=> Before(y, z)
    BY SameTasks DEF Holding
  <1>5. LossesBounded' /\ Cardinality(lost') <= giveUps' + (IF rx' = "open" THEN 0 ELSE Capacity + 1)
    <2>1. Orphans' = Orphans /\ ReceiverLoses' = ReceiverLoses
      BY DEF Orphans, ReceiverLoses
    <2> QED
      BY <2>1, LosesNat, LossesStay
  <1>6. HandlersGated' /\ permits' \in 0 .. Limit
    BY HandlersStay
  <1>7. AsyncTypeInv'
    <2>1. Len(channel') <= Capacity
      BY <1>1, Parameters DEF AsyncInv, AsyncTypeInv
    <2> QED
      BY <1>1, <1>3, <1>6, <2>1 DEF AsyncInv, AsyncTypeInv, ledgerVars
  <1>8. CallsServed'
    <2>1. \A i \in DOMAIN channel' : channel'[i] \in Delivered'
      BY <1>1, <1>4 DEF AsyncInv, CallsServed
    <2> QED
      BY <1>3, <1>4, <2>1 DEF AsyncInv, CallsServed, ledgerVars
  <1>9. TasksApart'
    <2>1. \A i, j \in DOMAIN channel' : channel'[i] = channel'[j] => i = j
      BY <1>1 DEF AsyncInv, TasksApart
    <2>2. \A i \in DOMAIN channel' :
            /\ \A t \in Holding : item[t] # channel'[i]
            /\ channel'[i] # next /\ channel'[i] \notin lost \cup running
      BY <1>1 DEF AsyncInv, TasksApart
    <2> QED
      BY <1>4, <2>1, <2>2 DEF AsyncInv, TasksApart
  <1>10. TasksAccounted'
    <2>1. OnTheWay = OnTheWay' + 1 /\ OnTheWay' \in Nat
      <3>1. PICK h, n \in Nat : h = Cardinality(Holding) /\ n = (IF next = 0 THEN 0 ELSE 1)
        BY Sizes
      <3>2. OnTheWay = h + Len(channel) + n /\ OnTheWay' = h + Len(channel') + n
        BY <1>4, <3>1 DEF OnTheWay
      <3> QED
        BY <1>1, <3>2
    <2>2. OnTheWay' + Received' + Cardinality(lost') = Cardinality(Delivered')
      <3>1. PICK o, r, l \in Nat : o = OnTheWay' /\ r = Received /\ l = Cardinality(lost)
        BY <2>1, PlacesNat, Sizes
      <3>2. Received' = r + 1 /\ Cardinality(lost') = l
        BY <1>3, <3>1
      <3>3. Cardinality(Delivered') = (o + 1) + r + l
        BY <1>4, <2>1, <3>1, PlacesNat
      <3> QED
        BY <3>1, <3>2, <3>3
    <2> QED
      BY <1>5, <1>7, <1>8, <2>2, Counted
  <1>11. OrderOnTheWay'
    <2>1. \A i, j \in DOMAIN channel' : i < j => Before(channel'[i], channel'[j])
      BY <1>1 DEF AsyncInv, OrderOnTheWay
    <2>2. \A i \in DOMAIN channel' :
            /\ Before(x, channel'[i])
            /\ item[Worker] # 0 => Before(channel'[i], item[Worker])
            /\ \A k \in DOMAIN got["receiver"] : Before(got["receiver"][k], channel'[i])
      BY <1>1 DEF AsyncInv, OrderOnTheWay
    <2>3. item[Worker] # 0 =>
            \A k \in DOMAIN got'["receiver"] : Before(got'["receiver"][k], item[Worker])
      BY <1>1, <1>3 DEF AsyncInv, OrderOnTheWay
    <2>4. \A i \in DOMAIN channel' :
            \A k \in DOMAIN got'["receiver"] : Before(got'["receiver"][k], channel'[i])
      BY <1>3, <2>2
    <2>5. got'["stream"] = got["stream"] /\ got'["dispatcher"] = got["dispatcher"]
      BY <1>3, Sizes
    <2>6. DOMAIN call = {"stream", "dispatcher"}
      BY Present
    <2> QED
      BY <1>4, <2>1, <2>2, <2>3, <2>4, <2>5, <2>6 DEF AsyncInv, OrderOnTheWay
  <1> QED
    BY <1>3, <1>5, <1>6, <1>7, <1>8, <1>9, <1>10, <1>11 DEF AsyncInv

\* What holds of a future that wakes up with a task.
LEMMA Awakened ==
  ASSUME AsyncInv, NEW u \in {"stream", "dispatcher"}, Awaited(u, "task")
  PROVE  LET t == call[u] IN
         /\ t \in Pool /\ t \in Threads /\ t # Worker /\ dequeuer[t] = "task" /\ item[t] # 0
         /\ dequeuer' \in [Threads -> Phases]
         /\ \A s \in Threads : dequeuer'[s] = IF s = t THEN "idle" ELSE dequeuer[s]
         /\ item' = [item EXCEPT ![t] = 0]
         /\ \A v \in {"stream", "dispatcher"} : call'[v] = IF v = u THEN NoThread ELSE call[v]
         /\ \A v \in {"stream", "dispatcher"} : call'[v] # NoThread => call'[v] # t
         /\ UNCHANGED <<ledgerVars, rx, channel, permits, running, lost, giveUps>>
         /\ LossesBounded'
         /\ Cardinality(lost') <= giveUps' + (IF rx' = "open" THEN 0 ELSE Capacity + 1)
         /\ call' \in [{"stream", "dispatcher"} -> Pool \cup {NoThread}]
         /\ \A v, w \in DOMAIN call' : call'[v] = call'[w] => v = w \/ call'[v] = NoThread
         /\ \A s \in Pool : dequeuer'[s] # "ended"
         /\ \A v \in DOMAIN call' :
              call'[v] # NoThread => dequeuer'[call'[v]] \notin {"idle", "ended"}
         /\ \A k \in DOMAIN got[u] : Before(got[u][k], item[t])
  <1> DEFINE t == call[u]
  <1>1. /\ t # NoThread /\ dequeuer[t] = "task"
        /\ dequeuer' = [dequeuer EXCEPT ![t] = "idle"] /\ item' = [item EXCEPT ![t] = 0]
        /\ call' = [call EXCEPT ![u] = NoThread]
        /\ UNCHANGED <<ledgerVars, rx, channel, permits, running, lost, giveUps>>
    BY DEF Awaited, Goes, receiverVars
  <1>2. t \in Pool /\ t \in Threads /\ t # Worker /\ item[t] # 0
    BY <1>1, Parameters, Present DEF CallsFit
  <1>3. /\ dequeuer' \in [Threads -> Phases]
        /\ \A s \in Threads : dequeuer'[s] = IF s = t THEN "idle" ELSE dequeuer[s]
    BY <1>1, <1>2, Present DEF Phases
  <1>4. /\ call' \in [{"stream", "dispatcher"} -> Pool \cup {NoThread}]
        /\ \A v \in {"stream", "dispatcher"} : call'[v] = IF v = u THEN NoThread ELSE call[v]
    BY <1>1, Present DEF CallsFit
  <1>5. \A v \in {"stream", "dispatcher"} : call'[v] # NoThread => call'[v] # t
    BY <1>1, <1>4, Present DEF CallsFit
  <1>6. Orphans' \subseteq Orphans
    BY <1>3, <1>4, <1>5, Parameters, Present DEF Orphans
  <1>7. ReceiverLoses <= ReceiverLoses'
    BY <1>1, <1>2, <1>3, Parameters DEF ReceiverLoses
  <1>8. LossesBounded' /\ Cardinality(lost') <= giveUps' + (IF rx' = "open" THEN 0 ELSE Capacity + 1)
    BY <1>1, <1>6, <1>7, LossesStay
  <1>9. \A v, w \in DOMAIN call' : call'[v] = call'[w] => v = w \/ call'[v] = NoThread
    BY <1>4, Present DEF CallsFit
  <1>10. /\ \A s \in Pool : dequeuer'[s] # "ended"
         /\ \A v \in DOMAIN call' :
              call'[v] # NoThread => dequeuer'[call'[v]] \notin {"idle", "ended"}
    BY <1>3, <1>4, <1>5, Parameters, Present DEF CallsFit
  <1>11. \A k \in DOMAIN got[u] : Before(got[u][k], item[t])
    BY <1>1, <1>2, Present DEF AsyncInv, OrderOnTheWay
  <1> QED
    BY <1>1, <1>2, <1>3, <1>4, <1>5, <1>8, <1>9, <1>10, <1>11

\* The stream yields a task.
LEMMA YieldKeeps == ASSUME AsyncInv, Yield PROVE AsyncInv'
  <1> USE DEF receiverVars, runVars
  <1>1. PICK t : t = call["stream"]
    OBVIOUS
  <1>2. PICK x : x = item[t]
    OBVIOUS
  <1>3. /\ Awaited("stream", "task") /\ UNCHANGED <<run, next, ended>>
        /\ got' = [got EXCEPT !["stream"] = Append(@, x)]
    BY <1>1, <1>2 DEF Yield
  <1>4. /\ t \in Pool /\ t \in Threads /\ t # Worker /\ dequeuer[t] = "task" /\ item[t] # 0
        /\ dequeuer' \in [Threads -> Phases]
        /\ \A s \in Threads : dequeuer'[s] = IF s = t THEN "idle" ELSE dequeuer[s]
        /\ item' = [item EXCEPT ![t] = 0]
        /\ \A v \in {"stream", "dispatcher"} : call'[v] = IF v = "stream" THEN NoThread ELSE call[v]
        /\ \A v \in {"stream", "dispatcher"} : call'[v] # NoThread => call'[v] # t
        /\ UNCHANGED <<ledgerVars, rx, channel, permits, running, lost, giveUps>>
        /\ LossesBounded'
        /\ Cardinality(lost') <= giveUps' + (IF rx' = "open" THEN 0 ELSE Capacity + 1)
        /\ call' \in [{"stream", "dispatcher"} -> Pool \cup {NoThread}]
        /\ \A v, w \in DOMAIN call' : call'[v] = call'[w] => v = w \/ call'[v] = NoThread
        /\ \A s \in Pool : dequeuer'[s] # "ended"
        /\ \A v \in DOMAIN call' :
             call'[v] # NoThread => dequeuer'[call'[v]] \notin {"idle", "ended"}
        /\ \A k \in DOMAIN got["stream"] : Before(got["stream"][k], x)
    BY <1>1, <1>2, <1>3, Awakened
  <1>5. /\ item' \in [Threads -> {0} \cup DOMAIN job] /\ item'[t] = 0
        /\ \A s \in Threads : item'[s] = IF s = t THEN 0 ELSE item[s]
        /\ Cardinality(Holding) = Cardinality(Holding') + 1
        /\ Cardinality(Holding') \in Nat
        /\ x \in Delivered /\ x \in DOMAIN job
        /\ \A s \in Holding' : item'[s] = item[s] /\ s \in Holding /\ item[s] # x
    BY <1>2, <1>4, ItemGone
  <1>6. /\ got' \in [Users -> Seq(DOMAIN job)]
        /\ \A v \in Users \ {"stream"} : got'[v] = got[v]
        /\ \A k \in DOMAIN got'["stream"] :
             \/ k \in DOMAIN got["stream"] /\ got'["stream"][k] = got["stream"][k]
             \/ got'["stream"][k] = x
        /\ Received' = Received + 1
        /\ OrderKept'
        /\ \A v \in Users : \A k \in DOMAIN got'[v] : got'[v][k] \in Delivered
    <2>1. "stream" \in Users /\ UNCHANGED ledgerVars
      BY <1>4, Sizes
    <2>2. x \in Delivered /\ \A k \in DOMAIN got["stream"] : Before(got["stream"][k], x)
      BY <1>4, <1>5
    <2>3. got' = [got EXCEPT !["stream"] = Append(@, x)]
      BY <1>3
    <2>4. Handed("stream", x)
      BY <2>1, <2>2, <2>3, GotMore
    <2> QED
      BY <2>4 DEF Handed
  <1>7. /\ Delivered' = Delivered /\ Queued' = Queued
        /\ \A y, z : Before(y, z)' <=> Before(y, z)
    BY <1>4, SameTasks
  <1>8. HandlersGated' /\ permits' \in 0 .. Limit
    BY <1>3, <1>4, HandlersStay
  <1>9. AsyncTypeInv'
    <2>1. \A z \in Threads : item'[z] # 0 <=> dequeuer'[z] = "task"
      BY <1>4, <1>5, Present
    <2> QED
      BY <1>3, <1>4, <1>5, <1>6, <1>8, <2>1 DEF AsyncInv, AsyncTypeInv, Phases, ledgerVars
  <1>10. CallsServed'
    <2>1. {item'[z] : z \in Holding'} \subseteq Delivered'
      BY <1>5, <1>7 DEF AsyncInv, CallsServed
    <2>2. call'["dispatcher"] # NoThread => run' = "loop"
      BY <1>3, <1>4, Present DEF CallsFit
    <2> QED
      BY <1>3, <1>4, <1>6, <1>7, <2>1, <2>2 DEF AsyncInv, CallsServed, ledgerVars
  <1>11. TasksApart'
    BY <1>3, <1>4, <1>5 DEF AsyncInv, TasksApart
  <1>12. TasksAccounted'
    <2>1. OnTheWay = OnTheWay' + 1 /\ OnTheWay' \in Nat
      <3> DEFINE asked == IF next = 0 THEN 0 ELSE 1
      <3>0. Len(channel) \in Nat /\ asked \in Nat
        BY Sizes
      <3>1. PICK h, c, n \in Nat : h = Cardinality(Holding') /\ c = Len(channel) /\ n = asked
        BY <1>5, <3>0, Zenon
      <3>2. OnTheWay = (h + 1) + c + n /\ OnTheWay' = h + c + n
        BY <1>3, <1>4, <1>5, <3>1 DEF OnTheWay
      <3> QED
        BY <3>2
    <2>2. OnTheWay' + Received' + Cardinality(lost') = Cardinality(Delivered')
      BY <1>4, <1>6, <1>7, <2>1, PlacesNat, Sizes
    <2> QED
      BY <1>4, <1>9, <1>10, <2>2, Counted
  <1>13. OrderOnTheWay'
    <2>1. got'["receiver"] = got["receiver"] /\ got'["dispatcher"] = got["dispatcher"]
      BY <1>6, Sizes
    <2>2. item'[Worker] = item[Worker]
      BY <1>4, <1>5, Parameters
    <2>3. \A v \in DOMAIN call' : call'[v] # NoThread /\ item'[call'[v]] # 0 =>
            v = "dispatcher" /\ call'[v] = call[v] /\ item'[call'[v]] = item[call[v]]
      BY <1>4, <1>5, Parameters
    <2>4. DOMAIN call = {"stream", "dispatcher"}
      BY Present
    <2> QED
      BY <1>3, <1>4, <1>7, <2>1, <2>2, <2>3, <2>4 DEF AsyncInv, OrderOnTheWay
  <1> QED
    BY <1>4, <1>6, <1>8, <1>9, <1>10, <1>11, <1>12, <1>13 DEF AsyncInv

\* The dispatcher takes the task it will ask a permit for.
LEMMA NextTaskKeeps == ASSUME AsyncInv, NextTask PROVE AsyncInv'
  <1> USE DEF receiverVars, runVars
  <1>1. PICK t : t = call["dispatcher"]
    OBVIOUS
  <1>2. PICK x : x = item[t]
    OBVIOUS
  <1>3. /\ Awaited("dispatcher", "task") /\ run' = "acquire" /\ next' = x
        /\ UNCHANGED <<ended, got>>
    BY <1>1, <1>2 DEF NextTask
  <1>4. /\ t \in Pool /\ t \in Threads /\ t # Worker /\ dequeuer[t] = "task" /\ item[t] # 0
        /\ dequeuer' \in [Threads -> Phases]
        /\ \A s \in Threads : dequeuer'[s] = IF s = t THEN "idle" ELSE dequeuer[s]
        /\ item' = [item EXCEPT ![t] = 0]
        /\ \A v \in {"stream", "dispatcher"} :
             call'[v] = IF v = "dispatcher" THEN NoThread ELSE call[v]
        /\ \A v \in {"stream", "dispatcher"} : call'[v] # NoThread => call'[v] # t
        /\ UNCHANGED <<ledgerVars, rx, channel, permits, running, lost, giveUps>>
        /\ LossesBounded'
        /\ Cardinality(lost') <= giveUps' + (IF rx' = "open" THEN 0 ELSE Capacity + 1)
        /\ call' \in [{"stream", "dispatcher"} -> Pool \cup {NoThread}]
        /\ \A v, w \in DOMAIN call' : call'[v] = call'[w] => v = w \/ call'[v] = NoThread
        /\ \A s \in Pool : dequeuer'[s] # "ended"
        /\ \A v \in DOMAIN call' :
             call'[v] # NoThread => dequeuer'[call'[v]] \notin {"idle", "ended"}
        /\ \A k \in DOMAIN got["dispatcher"] : Before(got["dispatcher"][k], x)
    BY <1>1, <1>2, <1>3, Awakened
  <1>5. /\ item' \in [Threads -> {0} \cup DOMAIN job] /\ item'[t] = 0
        /\ \A s \in Threads : item'[s] = IF s = t THEN 0 ELSE item[s]
        /\ Cardinality(Holding) = Cardinality(Holding') + 1
        /\ Cardinality(Holding') \in Nat
        /\ x \in Delivered /\ x \in DOMAIN job
        /\ \A s \in Holding' : item'[s] = item[s] /\ s \in Holding /\ item[s] # x
    BY <1>2, <1>4, ItemGone
  <1>6. call["dispatcher"] # NoThread /\ run = "loop" /\ next = 0 /\ x # 0
    BY <1>2, <1>3, <1>4, Present DEF Awaited, CallsFit
  <1>7. /\ Delivered' = Delivered /\ Queued' = Queued
        /\ \A y, z : Before(y, z)' <=> Before(y, z)
    BY <1>4, SameTasks
  <1>8. HandlersGated' /\ permits' \in 0 .. Limit
    BY <1>3, <1>4, HandlersStay
  <1>9. AsyncTypeInv'
    <2>1. \A z \in Threads : item'[z] # 0 <=> dequeuer'[z] = "task"
      BY <1>4, <1>5, Present
    <2> QED
      BY <1>3, <1>4, <1>5, <1>8, <2>1 DEF AsyncInv, AsyncTypeInv, Phases, ledgerVars
  <1>10. CallsServed'
    <2>1. {item'[z] : z \in Holding'} \subseteq Delivered'
      BY <1>5, <1>7 DEF AsyncInv, CallsServed
    <2>2. call'["dispatcher"] # NoThread => run' = "loop"
      BY <1>4
    <2> QED
      BY <1>3, <1>4, <1>5, <1>7, <2>1, <2>2 DEF AsyncInv, CallsServed, ledgerVars
  <1>11. TasksApart'
    <2>1. t \in Holding /\ item[t] = x
      BY <1>2, <1>4 DEF Holding
    <2> QED
      BY <1>3, <1>4, <1>5, <2>1 DEF AsyncInv, TasksApart
  <1>12. TasksAccounted'
    <2>1. OnTheWay = OnTheWay' /\ Received' = Received
      <3>1. PICK h, c \in Nat : h = Cardinality(Holding') /\ c = Len(channel)
        BY <1>5, Sizes
      <3>2. OnTheWay = (h + 1) + c + 0 /\ OnTheWay' = h + c + 1
        BY <1>3, <1>4, <1>5, <1>6, <3>1 DEF OnTheWay
      <3>3. Received' = Received
        BY <1>3 DEF Received
      <3> QED
        BY <3>2, <3>3
    <2>2. OnTheWay' + Received' + Cardinality(lost') = Cardinality(Delivered')
      BY <1>4, <1>7, <2>1, PlacesNat
    <2> QED
      BY <1>4, <1>9, <1>10, <2>2, Counted
  <1>13. OrderKept'
    BY <1>3, <1>4 DEF AsyncInv, OrderKept, Ledger!SameQueue, ledgerVars
  <1>14. OrderOnTheWay'
    <2>1. item'[Worker] = item[Worker]
      BY <1>4, <1>5, Parameters
    <2>2. \A v \in DOMAIN call' : call'[v] # NoThread /\ item'[call'[v]] # 0 =>
            v = "stream" /\ call'[v] = call[v] /\ item'[call'[v]] = item[call[v]]
      BY <1>4, <1>5, Parameters
    <2>3. DOMAIN call = {"stream", "dispatcher"}
      BY Present
    <2> QED
      BY <1>3, <1>4, <1>7, <2>1, <2>2, <2>3 DEF AsyncInv, OrderOnTheWay
  <1> QED
    BY <1>4, <1>8, <1>9, <1>10, <1>11, <1>12, <1>13, <1>14 DEF AsyncInv

\* A handler gets the task with a permit.
LEMMA SpawnHandlerKeeps == ASSUME AsyncInv, SpawnHandler PROVE AsyncInv'
  <1> USE DEF receiverVars
  <1>1. PICK x : x = next
    OBVIOUS
  <1>2. /\ run = "acquire" /\ permits > 0 /\ permits' = permits - 1
        /\ running' = running \cup {x} /\ run' = "loop" /\ next' = 0
        /\ got' = [got EXCEPT !["dispatcher"] = Append(@, x)]
        /\ UNCHANGED <<ledgerVars, dequeuer, item, receiverVars, call, ended, lost, giveUps>>
    BY <1>1 DEF SpawnHandler, LessOne
  <1>3. x \in DOMAIN job /\ x # 0 /\ x \in Delivered
    <2>1. x \in DOMAIN job
      BY <1>1, <1>2 DEF AsyncInv, AsyncTypeInv
    <2>2. x # 0
      BY <2>1, Present
    <2> QED
      BY <1>1, <2>1, <2>2 DEF AsyncInv, CallsServed
  <1>4. /\ got' \in [Users -> Seq(DOMAIN job)]
        /\ \A v \in Users \ {"dispatcher"} : got'[v] = got[v]
        /\ \A k \in DOMAIN got'["dispatcher"] :
             \/ k \in DOMAIN got["dispatcher"] /\ got'["dispatcher"][k] = got["dispatcher"][k]
             \/ got'["dispatcher"][k] = x
        /\ Received' = Received + 1
        /\ OrderKept'
        /\ \A v \in Users : \A k \in DOMAIN got'[v] : got'[v][k] \in Delivered
    <2>1. "dispatcher" \in Users /\ UNCHANGED ledgerVars
      BY <1>2, Sizes
    <2>2. \A k \in DOMAIN got["dispatcher"] : Before(got["dispatcher"][k], x)
      BY <1>1, <1>3 DEF AsyncInv, OrderOnTheWay
    <2>3. got' = [got EXCEPT !["dispatcher"] = Append(@, x)]
      BY <1>2
    <2>4. Handed("dispatcher", x)
      BY <1>3, <2>1, <2>2, <2>3, GotMore
    <2> QED
      BY <2>4 DEF Handed
  <1>5. /\ Delivered' = Delivered /\ Queued' = Queued /\ Holding' = Holding
        /\ \A y, z : Before(y, z)' <=> Before(y, z)
    BY <1>2, SameTasks DEF Holding
  <1>6. x \notin running /\ x \notin lost
    BY <1>1 DEF AsyncInv, TasksApart
  <1>7. HandlersGated' /\ permits' \in 0 .. Limit
    <2>1. Cardinality(running') = Cardinality(running) + 1
      BY <1>2, <1>6, Sizes, FS_AddElement
    <2>2. Cardinality(running) + permits = Limit /\ permits \in 0 .. Limit
      BY DEF AsyncInv, AsyncTypeInv, HandlersGated
    <2>3. Cardinality(running') + permits' = Limit /\ permits' \in 0 .. Limit
      BY <1>2, <2>1, <2>2, Parameters, Sizes
    <2> QED
      BY <1>2, <2>3 DEF HandlersGated, Limit
  <1>8. LossesBounded' /\ Cardinality(lost') <= giveUps' + (IF rx' = "open" THEN 0 ELSE Capacity + 1)
    <2>1. Orphans' = Orphans /\ ReceiverLoses' = ReceiverLoses
      BY <1>2 DEF Orphans, ReceiverLoses
    <2> QED
      BY <1>2, <2>1, LosesNat, LossesStay
  <1>9. AsyncTypeInv'
    BY <1>2, <1>3, <1>4, <1>7 DEF AsyncInv, AsyncTypeInv, ledgerVars
  <1>10. CallsServed'
    BY <1>2, <1>3, <1>4, <1>5 DEF AsyncInv, CallsServed, ledgerVars
  <1>11. TasksApart'
    <2>1. /\ \A s \in Holding : item[s] # x /\ item[s] # 0
          /\ \A i \in DOMAIN channel : channel[i] # x /\ channel[i] # 0
          /\ 0 \notin lost \cup running'
      <3>1. /\ \A s \in Holding : item[s] # x
            /\ \A i \in DOMAIN channel : channel[i] # x
        BY <1>1 DEF AsyncInv, TasksApart
      <3>2. \A z \in Delivered : z # 0
        BY AsyncAssumption DEF Delivered, Ids
      <3> QED
        BY <1>2, <1>3, <3>1, <3>2 DEF AsyncInv, CallsServed, Holding
    <2> QED
      BY <1>2, <1>5, <2>1 DEF AsyncInv, TasksApart
  <1>12. TasksAccounted'
    <2>1. OnTheWay = OnTheWay' + 1 /\ OnTheWay' \in Nat
      <3>1. PICK h, c \in Nat : h = Cardinality(Holding) /\ c = Len(channel)
        BY Sizes
      <3>2. OnTheWay = h + c + 1 /\ OnTheWay' = h + c + 0
        BY <1>1, <1>2, <1>3, <1>5, <3>1 DEF OnTheWay
      <3> QED
        BY <3>2
    <2>2. OnTheWay' + Received' + Cardinality(lost') = Cardinality(Delivered')
      <3>1. lost' = lost /\ Received' = Received + 1 /\ Delivered' = Delivered
        BY <1>2, <1>4, <1>5
      <3>2. OnTheWay + Received + Cardinality(lost) = Cardinality(Delivered) /\ Received \in Nat
        BY PlacesNat
      <3>3. Cardinality(lost) \in Nat
        BY Sizes
      <3> QED
        BY <2>1, <3>1, <3>2, <3>3
    <2> QED
      BY <1>8, <1>9, <1>10, <2>2, Counted
  <1>13. OrderOnTheWay'
    <2>1. got'["receiver"] = got["receiver"] /\ got'["stream"] = got["stream"]
      BY <1>4, Sizes
    <2>2. call["dispatcher"] = NoThread /\ DOMAIN call = {"stream", "dispatcher"}
      BY <1>2, Present DEF CallsFit
    <2> QED
      BY <1>2, <1>5, <2>1, <2>2 DEF AsyncInv, OrderOnTheWay
  <1> QED
    BY <1>4, <1>7, <1>8, <1>9, <1>10, <1>11, <1>12, <1>13 DEF AsyncInv

\* A handler ends and gives its permit back.
LEMMA EndHandlerKeeps == ASSUME AsyncInv, NEW x \in running, EndHandler(x) PROVE AsyncInv'
  <1> USE DEF receiverVars
  <1>1. /\ running' = running \ {x} /\ permits' = permits + 1
        /\ UNCHANGED <<ledgerVars, dequeuer, item, receiverVars, call, run, next,
                       ended, got, lost, giveUps>>
    BY DEF EndHandler
  <1>2. HandlersGated' /\ permits' \in 0 .. Limit
    <2>1. /\ IsFiniteSet(running \ {x})
          /\ Cardinality(running \ {x}) = Cardinality(running) - 1
      BY Sizes, FS_RemoveElement
    <2>2. Cardinality(running') \in Nat
      BY <1>1, <2>1, FS_CardinalityType
    <2>3. /\ Cardinality(running) + permits = Limit
      BY DEF AsyncInv, HandlersGated
    <2>4. PICK w \in Nat : w = Limit % U32
      BY Parameters
    <2>5. run = "returned" => Cardinality(running) <= Limit - w
      BY <2>4 DEF AsyncInv, HandlersGated
    <2>6. /\ Cardinality(running') + permits' = Limit /\ permits' \in 0 .. Limit
          /\ Cardinality(running') <= Cardinality(running)
      <3>1. PICK n, m \in Nat : n = Cardinality(running) /\ m = Cardinality(running')
        BY <2>2, Sizes
      <3>2. m = n - 1 /\ n + permits = Limit /\ permits \in Nat /\ Limit \in Nat
        BY <1>1, <2>1, <2>3, <3>1, Parameters, Sizes
      <3>3. m + permits' = Limit /\ permits' \in 0 .. Limit /\ m <= n
        BY <1>1, <3>2
      <3> QED
        BY <3>1, <3>3
    <2>7. run' = "returned" => Cardinality(running') <= Limit - w
      <3>1. PICK n, m \in Nat : n = Cardinality(running) /\ m = Cardinality(running')
        BY <2>2, Sizes
      <3>2. m <= n /\ (run' = "returned" => n <= Limit - w) /\ Limit \in Nat
        BY <1>1, <2>5, <2>6, <3>1, Parameters
      <3>3. run' = "returned" => m <= Limit - w
        BY <2>4, <3>2
      <3> QED
        BY <3>1, <3>3
    <2>8. /\ Cardinality(running') + permits' = Limit
          /\ run' = "returned" => Cardinality(running') <= Limit - (Limit % U32)
      BY <2>4, <2>6, <2>7
    <2> QED
      BY <2>6, <2>8, Zenon DEF HandlersGated, Limit
  <1>3. /\ Delivered' = Delivered /\ Queued' = Queued /\ Holding' = Holding
        /\ \A y, z : Before(y, z)' <=> Before(y, z)
    BY <1>1, SameTasks DEF Holding
  <1>4. LossesBounded' /\ Cardinality(lost') <= giveUps' + (IF rx' = "open" THEN 0 ELSE Capacity + 1)
    <2>1. Orphans' = Orphans /\ ReceiverLoses' = ReceiverLoses
      BY <1>1 DEF Orphans, ReceiverLoses
    <2> QED
      BY <1>1, <2>1, LosesNat, LossesStay
  <1>5. AsyncTypeInv'
    BY <1>1, <1>2 DEF AsyncInv, AsyncTypeInv, ledgerVars
  <1>6. CallsServed'
    BY <1>1, <1>3 DEF AsyncInv, CallsServed, ledgerVars
  <1>7. TasksApart'
    BY <1>1, <1>3 DEF AsyncInv, TasksApart
  <1>8. TasksAccounted'
    <2>1. OnTheWay' = OnTheWay /\ Received' = Received
      BY <1>1, <1>3 DEF OnTheWay, Received
    <2> QED
      BY <1>1, <1>3, <1>4, <1>5, <1>6, <2>1, PlacesNat, Counted
  <1>9. OrderKept' /\ OrderOnTheWay'
    BY <1>1, <1>3, Zenon DEF AsyncInv, OrderOnTheWay, OrderKept, Ledger!SameQueue, ledgerVars
  <1> QED
    BY <1>2, <1>4, <1>5, <1>6, <1>7, <1>8, <1>9 DEF AsyncInv

\* A spawned handler is called; it holds its permit already.
LEMMA StartHandlerKeeps == ASSUME AsyncInv, NEW x, StartHandler(x) PROVE AsyncInv'
  <1>1. UNCHANGED <<ledgerVars, dequeuer, item, receiverVars, call, run, next, permits,
                    running, ended, got, lost, giveUps>>
    BY DEF StartHandler
  <1> QED
    BY <1>1, Present, ReceiverKeeps DEF receiverVars

\* The future of run is dropped while it waits for a permit: the task is lost.
LEMMA AbortKeeps == ASSUME AsyncInv, AbortRun PROVE AsyncInv'
  <1> USE DEF receiverVars
  <1>1. /\ run \in {"loop", "acquire", "wait"} /\ giveUps < MaxGiveUps
        /\ run' = "aborted" /\ giveUps' = giveUps + 1
        /\ call' = [call EXCEPT !["dispatcher"] = NoThread]
        /\ lost' = lost \cup ({next} \ {0}) /\ next' = 0
        /\ UNCHANGED <<ledgerVars, dequeuer, item, receiverVars, permits, running, ended, got>>
    BY DEF AbortRun
  <1>2. CASE run # "acquire"
    <2>1. next = 0 /\ lost' = lost /\ UNCHANGED next
      BY <1>1, <1>2, Present
    <2> QED
      BY <1>1, <1>2, <2>1, CallDropped
  <1>3. CASE run = "acquire"
    <2>1. PICK x : x = next
      OBVIOUS
    <2>2. x # 0 /\ x \in DOMAIN job /\ x \in Delivered /\ lost' = lost \cup {x} /\ x \notin lost
      <3>1. x \in DOMAIN job
        BY <1>3, <2>1 DEF AsyncInv, AsyncTypeInv
      <3>2. x # 0
        BY <3>1, Present
      <3> QED
        BY <1>1, <2>1, <3>1, <3>2 DEF AsyncInv, CallsServed, TasksApart
    <2>3. call' = call /\ call["dispatcher"] = NoThread
      BY <1>1, <1>3, Present DEF CallsFit
    <2>4. /\ Delivered' = Delivered /\ Queued' = Queued /\ Holding' = Holding
          /\ \A y, z : Before(y, z)' <=> Before(y, z)
      BY <1>1, SameTasks DEF Holding
    <2>5. IsFiniteSet(lost') /\ Cardinality(lost') = Cardinality(lost) + 1
      BY <2>2, Sizes, FS_AddElement
    <2>6. giveUps' \in 0 .. MaxGiveUps /\ giveUps' \in Nat
      BY <1>1, Present, AsyncAssumption
    <2>7. LossesBounded' /\ Cardinality(lost') <= giveUps' + (IF rx' = "open" THEN 0 ELSE Capacity + 1)
      <3>1. Orphans' = Orphans /\ ReceiverLoses' = ReceiverLoses
        BY <1>1, <2>3 DEF Orphans, ReceiverLoses
      <3>2. Cardinality(lost') + Cardinality(Orphans')
              <= Cardinality(lost) + Cardinality(Orphans) + 1
        BY <2>5, <3>1, Sizes
      <3>3. giveUps + ReceiverLoses + 1 <= giveUps' + ReceiverLoses'
        BY <1>1, <3>1, LosesNat, Sizes
      <3>4. IsFiniteSet(Orphans') /\ 1 \in Nat
        BY <3>1, Sizes
      <3> QED
        BY <2>5, <2>6, <3>2, <3>3, <3>4, LossesHold
    <2>8. HandlersGated' /\ permits' \in 0 .. Limit
      BY <1>1, HandlersStay
    <2>9. AsyncTypeInv'
      BY <1>1, <2>2, <2>3, <2>6, <2>8 DEF AsyncInv, AsyncTypeInv, ledgerVars
    <2>10. CallsServed'
      BY <1>1, <2>2, <2>3, <2>4 DEF AsyncInv, CallsServed, ledgerVars
    <2>11. TasksApart'
      <3>1. \A z \in Delivered : z # 0
        BY AsyncAssumption DEF Delivered, Ids
      <3>2. /\ \A s \in Holding : item[s] # x /\ item[s] # 0
            /\ \A i \in DOMAIN channel : channel[i] # x /\ channel[i] # 0
            /\ 0 \notin lost' \cup running
        BY <2>1, <2>2, <3>1 DEF AsyncInv, CallsServed, Holding, TasksApart
      <3> QED
        BY <1>1, <2>2, <2>4, <3>2 DEF AsyncInv, TasksApart
    <2>12. TasksAccounted'
      <3>1. OnTheWay = OnTheWay' + 1 /\ OnTheWay' \in Nat /\ Received' = Received
        <4>1. PICK h, c \in Nat : h = Cardinality(Holding) /\ c = Len(channel)
          BY Sizes
        <4>2. OnTheWay = h + c + 1 /\ OnTheWay' = h + c + 0
          BY <1>1, <2>1, <2>2, <2>4, <4>1 DEF OnTheWay
        <4>3. Received' = Received
          BY <1>1 DEF Received
        <4> QED
          BY <4>2, <4>3
      <3>2. OnTheWay' + Received' + Cardinality(lost') = Cardinality(Delivered')
        BY <2>4, <2>5, <3>1, PlacesNat, Sizes
      <3> QED
        BY <2>7, <2>9, <2>10, <3>2, Counted
    <2>13. OrderKept' /\ OrderOnTheWay'
      BY <1>1, <2>3, <2>4, Zenon DEF AsyncInv, OrderOnTheWay, OrderKept, Ledger!SameQueue, ledgerVars
    <2> QED
      BY <2>7, <2>8, <2>9, <2>10, <2>11, <2>12, <2>13 DEF AsyncInv
  <1> QED
    BY <1>2, <1>3

-----------------------------------------------------------------------------
(* The invariant of every step. *)

LEMMA InitAsync == Init => AsyncInv
  <1> SUFFICES ASSUME Init PROVE AsyncInv
    OBVIOUS
  <1>1. PICK present \in Apps :
          /\ ended = Users \ present
          /\ run = (IF "dispatcher" \in present THEN "loop" ELSE "returned")
          /\ rx = (IF "receiver" \in present THEN "open" ELSE "joined")
          /\ dequeuer = [t \in Threads |-> IF t = Worker /\ "receiver" \notin present
                                           THEN "ended" ELSE "idle"]
    BY DEF Init
  <1>2. /\ mode = "open" /\ job = <<>> /\ inside = {} /\ status = [x \in Ids |-> "none"]
        /\ item = [t \in Threads |-> 0] /\ channel = <<>>
        /\ call = [u \in {"stream", "dispatcher"} |-> NoThread]
        /\ next = 0 /\ permits = Limit /\ running = {}
        /\ got = [u \in Users |-> <<>>] /\ lost = {} /\ giveUps = 0
    BY DEF Init, Ledger!Init
  <1>3. /\ DOMAIN job = {} /\ DOMAIN channel = {} /\ Len(channel) = 0
        /\ \A u \in Users : Len(got[u]) = 0 /\ DOMAIN got[u] = {}
        /\ job \in Seq(Jobs) /\ channel \in Seq(DOMAIN job) /\ got \in [Users -> Seq(DOMAIN job)]
    BY <1>2
  <1>4. Delivered = {} /\ Holding = {} /\ Cardinality({}) = 0
    BY <1>2, FS_EmptySet DEF Delivered, Holding
  <1>5. /\ dequeuer \in [Threads -> {"idle", "ended"}]
        /\ \A t \in Pool : dequeuer[t] = "idle"
    BY <1>1, Parameters
  <1>6. HandlersGated
    BY <1>1, <1>2, <1>4, Parameters DEF HandlersGated
  <1>7. AsyncTypeInv
    <2>1. permits \in 0 .. Limit /\ giveUps \in 0 .. MaxGiveUps /\ Len(channel) <= Capacity
      BY <1>2, <1>3, Parameters, AsyncAssumption
    <2>2. \A t \in Threads : item[t] = 0 /\ dequeuer[t] # "task"
      BY <1>2, <1>5
    <2> QED
      BY <1>1, <1>2, <1>3, <1>5, <2>1, <2>2 DEF AsyncTypeInv
  <1>8. CallsServed
    BY <1>2, <1>3, <1>4, <1>5 DEF CallsServed, Fates
  <1>9. TasksApart
    BY <1>2, <1>3, <1>4 DEF TasksApart
  <1>10. TasksAccounted
    <2>1. /\ Len(got["receiver"]) = 0 /\ Len(got["stream"]) = 0 /\ Len(got["dispatcher"]) = 0
      BY <1>3 DEF Users
    <2> QED
      BY <1>2, <1>3, <1>4, <2>1, Parameters DEF TasksAccounted
  <1>11. LossesBounded
    <2>1. Orphans = {}
      BY <1>5 DEF Orphans
    <2> QED
      BY <1>2, <1>4, <2>1, LosesNat DEF LossesBounded
  <1>12. OrderKept
    BY <1>3 DEF OrderKept
  <1>13. OrderOnTheWay
    <2>1. item[Worker] = 0 /\ \A u \in DOMAIN call : call[u] = NoThread
      BY <1>2, Parameters
    <2> QED
      BY <1>2, <1>3, <1>4, <2>1 DEF OrderOnTheWay
  <1> QED
    BY <1>6, <1>7, <1>8, <1>9, <1>10, <1>11, <1>12, <1>13 DEF AsyncInv

\* A step inside dequeue_blocking keeps it, whichever thread takes it.
LEMMA DequeueKeeps ==
  ASSUME AsyncInv, NEW t \in Threads, Dequeue(t)
  PROVE  AsyncInv'
  <1>1. CASE EnterTryDequeue(t)
    BY <1>1, QuietKeeps DEF EnterTryDequeue, Phases
  <1>2. CASE NothingLeft(t)
    BY <1>2, QuietKeeps DEF NothingLeft, Phases
  <1>3. CASE SeeClosed(t)
    BY <1>3, QuietKeeps DEF SeeClosed, Phases
  <1>4. CASE \E x \in Queued : Take(t, x)
    BY <1>4, TakeKeeps
  <1> QED
    BY <1>1, <1>2, <1>3, <1>4 DEF Dequeue

LEMMA WorkerKeeps == ASSUME AsyncInv, WorkerStep PROVE AsyncInv'
  <1>1. Worker \in Threads /\ Worker \notin Pool
    BY Parameters
  <1>2. CASE Look
    BY <1>1, <1>2, QuietKeeps DEF Look, Phases
  <1>3. CASE TimeOut
    BY <1>1, <1>3, QuietKeeps DEF TimeOut, Phases
  <1>4. CASE StopAtClosed
    BY <1>1, <1>4, QuietKeeps DEF StopAtClosed, AfterClosed, Phases
  <1>5. CASE BlockingSend
    BY <1>5, SendKeeps
  <1>6. CASE SendFails
    BY <1>1, <1>6, ThreadLoses DEF SendFails, HandOver, Goes, receiverVars
  <1>7. CASE Dequeue(Worker)
    BY <1>1, <1>7, DequeueKeeps
  <1> QED
    BY <1>2, <1>3, <1>4, <1>5, <1>6, <1>7 DEF WorkerStep

LEMMA OrphanKeeps == ASSUME AsyncInv, NEW t \in Pool, Orphan(t) PROVE AsyncInv'
  <1>1. /\ \A u \in DOMAIN call : call[u] # t
        /\ dequeuer[t] \in {"task", "closed"} /\ dequeuer' = [dequeuer EXCEPT ![t] = "idle"]
        /\ lost' = lost \cup ({item[t]} \ {0}) /\ item' = [item EXCEPT ![t] = 0]
        /\ UNCHANGED <<ledgerVars, receiverVars, call, runVars, ended, got, giveUps>>
    BY DEF Orphan, Goes, Wasted
  <1>2. t \in Threads
    BY Parameters
  <1>3. CASE dequeuer[t] = "task"
    <2>1. lost' = lost \cup {item[t]}
      BY <1>1, <1>2, <1>3, Present
    <2> QED
      BY <1>1, <1>2, <1>3, <2>1, ThreadLoses
  <1>4. CASE dequeuer[t] = "closed"
    <2>1. item[t] = 0 /\ item \in [Threads -> DOMAIN job \cup {0}]
      BY <1>2, <1>4, Present
    <2>2. item' = item /\ lost' = lost
      BY <1>1, <2>1
    <2>3. ended' \subseteq Users
      BY <1>1, Present
    <2> QED
      BY <1>1, <1>4, <2>2, <2>3, ThreadEnds DEF receiverVars, runVars
  <1> QED
    BY <1>1, <1>3, <1>4

\* A future wakes up and is told that no task will come.
LEMMA ClosedKeeps ==
  ASSUME AsyncInv, NEW u \in {"stream", "dispatcher"}, Awaited(u, "closed"),
         UNCHANGED <<next, got>>, ended' \subseteq Users,
         run' = IF u = "dispatcher" THEN "wait" ELSE run
  PROVE  AsyncInv'
  <1>1. PICK t : t = call[u]
    OBVIOUS
  <1>2. /\ t # NoThread /\ dequeuer[t] = "closed"
        /\ dequeuer' = [dequeuer EXCEPT ![t] = "idle"] /\ item' = [item EXCEPT ![t] = 0]
        /\ call' = [call EXCEPT ![u] = NoThread]
        /\ UNCHANGED <<ledgerVars, rx, channel, permits, running, lost, giveUps>>
    BY <1>1 DEF Awaited, Goes, receiverVars
  <1>3. t \in Pool /\ t \in Threads /\ u \in DOMAIN call
    BY <1>1, <1>2, Parameters, Present DEF CallsFit
  <1>4. item[t] = 0 /\ item \in [Threads -> DOMAIN job \cup {0}]
    BY <1>2, <1>3, Present
  <1>5. item' = item
    BY <1>2, <1>4
  <1> QED
    BY <1>1, <1>2, <1>3, <1>5, ThreadEnds

LEMMA ReceiverStepKeeps ==
  ASSUME AsyncInv, Recv \/ CloseRx \/ DropStep
  PROVE  AsyncInv'
  <1> USE DEF receiverVars, runVars
  <1>1. CASE Recv
    <2>1. /\ rx = "open"
          /\ \/ /\ channel # <<>> /\ channel' = Tail(channel)
                /\ got' = [got EXCEPT !["receiver"] = Append(@, Head(channel))]
                /\ UNCHANGED ended
             \/ /\ ended' = ended \cup {"receiver"} /\ UNCHANGED <<channel, got>>
          /\ UNCHANGED <<ledgerVars, dequeuer, item, rx, call, runVars, lost, giveUps>>
      BY <1>1 DEF Recv
    <2>2. CASE /\ channel # <<>> /\ channel' = Tail(channel)
               /\ got' = [got EXCEPT !["receiver"] = Append(@, Head(channel))]
               /\ UNCHANGED ended
      BY <2>1, <2>2, RecvKeeps
    <2>3. CASE ended' = ended \cup {"receiver"} /\ UNCHANGED <<channel, got>>
      <3>1. ended' \subseteq Users
        BY <2>3, Present DEF Users
      <3> QED
        BY <2>1, <2>3, <3>1, ReceiverKeeps
    <2> QED
      BY <2>1, <2>2, <2>3
  <1>2. CASE CloseRx
    BY <1>2, Present, ReceiverKeeps DEF CloseRx, ReceiverGoes
  <1>3. CASE DropRx
    BY <1>3, DropRxKeeps
  <1>4. CASE RaiseShutdown
    BY <1>4, Present, ReceiverKeeps DEF RaiseShutdown, ReceiverGoes
  <1>5. CASE Join
    BY <1>5, Present, ReceiverKeeps DEF Join, ReceiverGoes
  <1> QED
    BY <1>1, <1>2, <1>3, <1>4, <1>5 DEF DropStep

LEMMA CallerKeeps ==
  ASSUME AsyncInv, StreamStep \/ DropPending \/ RunStep \/ AbortRun
  PROVE  AsyncInv'
  <1>1. CASE Yield
    BY <1>1, YieldKeeps
  <1>2. CASE YieldNone
    <2>1. ended' \subseteq Users
      BY <1>2, Present DEF YieldNone, Users
    <2> QED
      BY <1>2, <2>1, ClosedKeeps DEF YieldNone
  <1>3. CASE SpawnBlocking("stream")
    BY <1>3, SpawnKeeps
  <1>4. CASE DropPending
    BY <1>4, CallDropped DEF DropPending, runVars
  <1>5. CASE NextTask
    BY <1>5, NextTaskKeeps
  <1>6. CASE LoopEnds
    <2>1. ended' \subseteq Users
      BY <1>6, Present DEF LoopEnds
    <2> QED
      BY <1>6, <2>1, ClosedKeeps DEF LoopEnds
  <1>7. CASE SpawnHandler
    BY <1>7, SpawnHandlerKeeps
  <1>8. CASE Return
    BY <1>8, ReturnKeeps
  <1>9. CASE SpawnBlocking("dispatcher")
    BY <1>9, SpawnKeeps
  <1>10. CASE AbortRun
    BY <1>10, AbortKeeps
  <1> QED
    BY <1>1, <1>2, <1>3, <1>4, <1>5, <1>6, <1>7, <1>8, <1>9, <1>10 DEF StreamStep, RunStep

-----------------------------------------------------------------------------
\* What the tasks on their way, the users and the handlers hold fits together in
\* every reachable state: the invariant the ones below follow from.
THEOREM AsyncInvariant == Spec => []AsyncInv
  <1>1. Init => AsyncInv
    BY InitAsync
  <1>2. AsyncInv /\ [Next]_vars => AsyncInv'
    <2> SUFFICES ASSUME AsyncInv, [Next]_vars PROVE AsyncInv'
      OBVIOUS
    <2>1. CASE \/ \E p \in Submitters : Enter(p) \/ Refuse(p) \/ Enqueue(p)
               \/ \E x \in Queued : Cancel(x)
               \/ \E m \in CloseModes : Close(m)
               \/ UNCHANGED vars
      BY <2>1, SchedulerKeeps
    <2>2. CASE WorkerStep
      BY <2>2, WorkerKeeps
    <2>3. CASE Recv \/ CloseRx \/ DropStep
      BY <2>3, ReceiverStepKeeps
    <2>4. CASE \E t \in Pool : Dequeue(t) \/ Orphan(t)
      BY <2>4, Parameters, DequeueKeeps, OrphanKeeps
    <2>5. CASE StreamStep \/ DropPending \/ RunStep \/ AbortRun
      BY <2>5, CallerKeeps
    <2>6. CASE \E x \in running : StartHandler(x) \/ EndHandler(x)
      BY <2>6, StartHandlerKeeps, EndHandlerKeeps
    <2> QED
      BY <2>1, <2>2, <2>3, <2>4, <2>5, <2>6 DEF Next
  <1> QED
    BY <1>1, <1>2, PTL DEF Spec

\* Every variable of the async layer keeps its type, and a thread holds a task
\* exactly while it has one to hand over (AsyncTypeInv).
THEOREM AsyncTypeCorrect == Spec => []AsyncTypeInv
  BY AsyncInvariant, PTL DEF AsyncInv

\* Each task taken from the scheduler is in one place, and only giving up loses
\* tasks, no more than one a call and what filled the channel (TasksAccounted).
THEOREM AllTasksAccounted == Spec => []TasksAccounted
  BY AsyncInvariant, PTL DEF AsyncInv

\* Each user gets the tasks of one tenant and priority in the order they were
\* accepted, and the dispatcher spawns their handlers in it (OrderKept).
THEOREM OrderAlwaysKept == Spec => []OrderKept
  BY AsyncInvariant, PTL DEF AsyncInv

-----------------------------------------------------------------------------
(* The order in which handlers start. *)

\* The log of spawned handlers and of their starts.
LEMMA StartFacts ==
  ASSUME AsyncInv, StartsInv
  PROVE  /\ got["dispatcher"] \in Seq(DOMAIN job) /\ Len(got["dispatcher"]) \in Nat
         /\ Spawned \subseteq DOMAIN job /\ IsFiniteSet(Spawned) /\ Spawned \subseteq Delivered
         /\ DOMAIN job \subseteq Nat /\ Len(started) \in Nat
         /\ DOMAIN started = 1 .. Len(started)
         /\ \A i \in DOMAIN started : started[i] \in Spawned
  <1>1. "dispatcher" \in Users
    BY DEF Users
  <1>2. got["dispatcher"] \in Seq(DOMAIN job) /\ Len(got["dispatcher"]) \in Nat
    BY <1>1, Sizes
  <1>3. Spawned \subseteq DOMAIN job
    BY <1>2 DEF Spawned
  <1>4. Spawned \subseteq Delivered
    BY <1>1 DEF Spawned, AsyncInv, CallsServed
  <1>5. IsFiniteSet(Spawned)
    BY <1>4, Sizes, FS_Subset
  <1>6. DOMAIN job \subseteq Nat
    BY Sizes
  <1>7. /\ Len(started) \in Nat /\ DOMAIN started = 1 .. Len(started)
        /\ \A i \in DOMAIN started : started[i] \in Spawned
    BY DEF StartsInv
  <1> QED
    BY <1>2, <1>3, <1>4, <1>5, <1>6, <1>7

\* Nothing is spawned, started or ended.
LEMMA StartsStay ==
  ASSUME AsyncInv, StartsInv, UNCHANGED <<started, running>>,
         got'["dispatcher"] = got["dispatcher"],
         \A x, y \in DOMAIN job : Older(x, y)' <=> Older(x, y)
  PROVE  StartsInv'
  <1>1. Spawned' = Spawned
    BY DEF Spawned
  <1>2. \A i \in DOMAIN started : Passed(i)' = Passed(i)
    BY <1>1, StartFacts DEF Passed
  <1>3. StartsInOrder'
    BY <1>2 DEF StartsInv, StartsInOrder, Limit
  <1> QED
    BY <1>1, <1>3 DEF StartsInv, HasStarted

\* What is spawned comes after all that was, so it was passed by nobody.
LEMMA SpawnStarts ==
  ASSUME AsyncInv, StartsInv, SpawnHandler
  PROVE  StartsInv'
  <1>1. PICK x : x = next
    OBVIOUS
  <1>2. /\ running' = running \cup {x} /\ started' = started /\ run = "acquire"
        /\ got'["dispatcher"] = Append(got["dispatcher"], x)
        /\ UNCHANGED ledgerVars
    BY <1>1, Sizes DEF SpawnHandler, AsyncInv, AsyncTypeInv
  <1>3. Spawned' = Spawned \cup {x}
    <2> DEFINE G == got["dispatcher"]
               H == got'["dispatcher"]
    <2>1. /\ DOMAIN H = DOMAIN G \cup {Len(G) + 1} /\ H[Len(G) + 1] = x
          /\ \A k \in DOMAIN G : H[k] = G[k]
      BY <1>2, StartFacts
    <2>2. Spawned = {G[k] : k \in DOMAIN G} /\ Spawned' = {H[k] : k \in DOMAIN H}
      BY DEF Spawned
    <2> HIDE DEF G, H
    <2> QED
      BY <2>1, <2>2
  <1>4. x \in DOMAIN job /\ x \in Nat
    BY <1>1, <1>2, StartFacts DEF AsyncInv, AsyncTypeInv
  <1>5. \A y \in Spawned : ~Older(x, y)
    <2>1. x # 0
      BY <1>4, Sizes
    <2>2. \A y \in Spawned : Before(y, x)
      BY <1>1, <2>1 DEF AsyncInv, OrderOnTheWay, Spawned
    <2>3. \A y : Ledger!SameQueue(x, y) <=> Ledger!SameQueue(y, x)
      BY DEF Ledger!SameQueue
    <2> QED
      BY <1>4, <2>2, <2>3, StartFacts DEF Before, Older
  <1>6. \A i \in DOMAIN started : Passed(i)' = Passed(i)
    <2>1. \A y, z : Older(y, z)' <=> Older(y, z)
      BY <1>2 DEF Older, Ledger!SameQueue, ledgerVars
    <2>2. \A i \in DOMAIN started : ~Older(x, started[i])
      BY <1>5, StartFacts
    <2> QED
      BY <1>2, <1>3, <2>1, <2>2 DEF Passed
  <1>7. StartsInOrder'
    BY <1>2, <1>6 DEF StartsInv, StartsInOrder, Limit
  <1> QED
    BY <1>2, <1>3, <1>7 DEF StartsInv, HasStarted

\* A handler that starts passes only those that hold a permit and are not it.
LEMMA StartStarts ==
  ASSUME AsyncInv, StartsInv, NEW x \in running, StartHandler(x)
  PROVE  StartsInv'
  <1>1. PICK n \in Nat : n = Len(started) + 1
    BY StartFacts
  <1>2. /\ UNCHANGED <<ledgerVars, running, got>> /\ started' = Append(started, x)
        /\ \A i \in DOMAIN started : started[i] # x
    BY DEF StartHandler, HasStarted
  <1>3. /\ DOMAIN started' = DOMAIN started \cup {n} /\ started'[n] = x
        /\ n \notin DOMAIN started
        /\ \A i \in DOMAIN started : started'[i] = started[i] /\ 1 .. i \subseteq DOMAIN started
    BY <1>1, <1>2, StartFacts DEF StartsInv
  <1>4. Spawned' = Spawned /\ \A y, z : Older(y, z)' <=> Older(y, z)
    BY <1>2 DEF Spawned, Older, Ledger!SameQueue, ledgerVars
  <1>5. \A i \in DOMAIN started : Passed(i)' = Passed(i)
    BY <1>3, <1>4 DEF Passed
  <1>6. Passed(n)' \subseteq running \ {x}
    <2>1. ASSUME NEW y \in Passed(n)' PROVE y \in running \ {x}
      <3>1. y \in Spawned /\ \A k \in 1 .. n : started'[k] # y
        BY <1>4, <2>1 DEF Passed
      <3>2. y # x /\ ~HasStarted(y)
        BY <1>1, <1>3, <3>1, StartFacts DEF HasStarted
      <3> QED
        BY <3>1, <3>2 DEF StartsInv
    <2> QED
      BY <2>1
  <1>7. Cardinality(Passed(n)') < Limit
    <2>1. IsFiniteSet(running \ {x}) /\ Cardinality(running \ {x}) = Cardinality(running) - 1
      BY Sizes, FS_RemoveElement
    <2>2. IsFiniteSet(Passed(n)') /\ Cardinality(Passed(n)') <= Cardinality(running \ {x})
      BY <1>6, <2>1, FS_Subset
    <2>3. Cardinality(Passed(n)') \in Nat
      BY <2>2, FS_CardinalityType
    <2>4. Cardinality(running) <= Limit
      BY Parameters, Sizes DEF AsyncInv, HandlersGated
    <2> QED
      BY <2>1, <2>2, <2>3, <2>4, Parameters, Sizes
  <1>8. StartsInOrder'
    BY <1>3, <1>5, <1>7 DEF StartsInv, StartsInOrder, Limit
  <1>9. /\ started' \in Seq(Spawned') /\ running' \subseteq Spawned'
        /\ \A i, j \in DOMAIN started' : started'[i] = started'[j] => i = j
    BY <1>2, <1>3, <1>4 DEF StartsInv
  <1>10. \A y \in Spawned' : y \in running' \/ HasStarted(y)'
    BY <1>2, <1>3, <1>4 DEF StartsInv, HasStarted
  <1> QED
    BY <1>8, <1>9, <1>10 DEF StartsInv

\* A handler that ends has started.
LEMMA EndStarts ==
  ASSUME AsyncInv, StartsInv, NEW x \in running, EndHandler(x)
  PROVE  StartsInv'
  <1>1. /\ UNCHANGED <<ledgerVars, started, got>> /\ running' = running \ {x}
        /\ HasStarted(x)
    BY DEF EndHandler
  <1>2. Spawned' = Spawned /\ \A y, z : Older(y, z)' <=> Older(y, z)
    BY <1>1 DEF Spawned, Older, Ledger!SameQueue, ledgerVars
  <1>3. \A i : Passed(i)' = Passed(i)
    BY <1>1, <1>2 DEF Passed
  <1>4. StartsInOrder'
    BY <1>1, <1>3 DEF StartsInv, StartsInOrder, Limit
  <1> QED
    BY <1>1, <1>2, <1>4 DEF StartsInv, HasStarted

\* No other step spawns, starts or ends a handler, and a task's tenant and
\* priority are settled when it is accepted.
LEMMA OthersStart ==
  ASSUME AsyncInv, [Next]_vars
  PROVE  \/ SpawnHandler
         \/ \E x \in running : StartHandler(x) \/ EndHandler(x)
         \/ /\ UNCHANGED <<started, running>> /\ got'["dispatcher"] = got["dispatcher"]
            /\ \A x, y \in DOMAIN job : Older(x, y)' <=> Older(x, y)
  <1> DEFINE Same == UNCHANGED <<started, running>> /\ got'["dispatcher"] = got["dispatcher"]
  <1>1. UNCHANGED job => \A x, y \in DOMAIN job : Older(x, y)' <=> Older(x, y)
    BY DEF Older, Ledger!SameQueue
  <1>2. ASSUME NEW p \in Submitters, Enqueue(p)
        PROVE  Same /\ \A x, y \in DOMAIN job : Older(x, y)' <=> Older(x, y)
    <2>1. PICK j \in Jobs : Same /\ job' = Append(job, j)
      BY <1>2 DEF Enqueue, SchedulerStep, Ledger!Accept, runVars
    <2>2. \A x \in DOMAIN job : job'[x] = job[x]
      BY <2>1, Sizes
    <2> QED
      BY <2>1, <2>2 DEF Older, Ledger!SameQueue
  <1>3. ASSUME \/ \E p \in Submitters : Enter(p) \/ Refuse(p)
               \/ \E x \in Queued : Cancel(x)
               \/ \E m \in CloseModes : Close(m)
               \/ UNCHANGED vars
        PROVE  Same /\ UNCHANGED job
    BY <1>3 DEF Enter, Refuse, Cancel, Close, SchedulerStep, vars, ledgerVars, runVars,
                Ledger!Admit, Ledger!Refuse, Ledger!Cancel, Ledger!Close, Ledger!Settle
  <1>4. ASSUME NEW t, Dequeue(t) PROVE Same /\ UNCHANGED job
    BY <1>4 DEF Dequeue, EnterTryDequeue, NothingLeft, SeeClosed, Take, QuietStep, ThreadStep,
                ledgerVars, runVars, Ledger!Deliver, Ledger!Settle
  <1>5. ASSUME WorkerStep PROVE Same /\ UNCHANGED job
    <2>1. Look \/ TimeOut \/ StopAtClosed => Same /\ UNCHANGED job
      BY DEF Look, TimeOut, StopAtClosed, QuietStep, ThreadStep, ledgerVars, runVars
    <2>2. BlockingSend \/ SendFails => Same /\ UNCHANGED job
      BY DEF BlockingSend, SendFails, HandOver, ledgerVars, runVars
    <2> QED
      BY <1>4, <1>5, <2>1, <2>2 DEF WorkerStep
  <1>6. ASSUME Recv \/ CloseRx \/ DropStep PROVE Same /\ UNCHANGED job
    <2>1. Recv => Same /\ UNCHANGED job
      BY DEF Recv, ledgerVars, runVars, AsyncInv, AsyncTypeInv, Users
    <2>2. CloseRx \/ DropStep => Same /\ UNCHANGED job
      BY DEF CloseRx, DropStep, DropRx, RaiseShutdown, Join, ReceiverGoes, ledgerVars, runVars
    <2> QED
      BY <1>6, <2>1, <2>2
  <1>7. ASSUME NEW t \in Pool, Orphan(t) PROVE Same /\ UNCHANGED job
    BY <1>7 DEF Orphan, ledgerVars, runVars
  <1>8. ASSUME \/ StreamStep \/ DropPending \/ AbortRun \/ NextTask \/ LoopEnds \/ Return
               \/ SpawnBlocking("dispatcher")
        PROVE  Same /\ UNCHANGED job
    <2>1. Yield => Same /\ UNCHANGED job
      BY DEF Yield, Awaited, ledgerVars, AsyncInv, AsyncTypeInv, Users
    <2>2. YieldNone \/ NextTask \/ LoopEnds => Same /\ UNCHANGED job
      BY DEF YieldNone, NextTask, LoopEnds, Awaited, ledgerVars
    <2>3. \A u : SpawnBlocking(u) => Same /\ UNCHANGED job
      BY DEF SpawnBlocking, ledgerVars, runVars
    <2>4. DropPending \/ AbortRun \/ Return => Same /\ UNCHANGED job
      BY DEF DropPending, AbortRun, Return, ledgerVars, runVars
    <2> QED
      BY <1>8, <2>1, <2>2, <2>3, <2>4 DEF StreamStep
  <1> QED
    BY <1>1, <1>2, <1>3, <1>4, <1>5, <1>6, <1>7, <1>8, Zenon DEF Next, RunStep

\* Handlers start in the order of their tasks up to what their permits allow: none
\* passes max_in_flight older ones of its tenant and priority (StartsInOrder).
THEOREM StartsAlwaysInOrder == Spec => []StartsInOrder
  <1>1. Init => StartsInv
    <2> SUFFICES ASSUME Init PROVE StartsInv
      OBVIOUS
    <2>1. got["dispatcher"] = <<>> /\ started = <<>> /\ running = {}
      BY DEF Init, Users
    <2> QED
      BY <2>1 DEF StartsInv, Spawned, StartsInOrder
  <1>2. AsyncInv /\ StartsInv /\ [Next]_vars => StartsInv'
    BY OthersStart, SpawnStarts, StartStarts, EndStarts, StartsStay
  <1>3. StartsInv => StartsInOrder
    BY DEF StartsInv
  <1> QED
    BY <1>1, <1>2, <1>3, AsyncInvariant, PTL DEF Spec

\* Never more than max_in_flight handlers run, and no more than the cast to u32
\* cuts off the limit when run returns (HandlersGated).
THEOREM HandlersAlwaysGated == Spec => []HandlersGated
  BY AsyncInvariant, PTL DEF AsyncInv

-----------------------------------------------------------------------------
(* What the consumers ask of the scheduler. *)

LEMMA AsyncStepOfLedger == ASSUME [Next]_vars PROVE [Ledger!Next]_Ledger!ledger
  <1>1. UNCHANGED ledgerVars => UNCHANGED Ledger!ledger
    BY DEF ledgerVars, Ledger!ledger
  <1>2. ASSUME NEW p \in Submitters, Enter(p) \/ Refuse(p) \/ Enqueue(p)
        PROVE  Ledger!Next
    <2>1. Enter(p) => Ledger!Admit(p)
      BY DEF Enter, SchedulerStep
    <2>2. Refuse(p) => Ledger!Refuse(p)
      BY DEF Refuse, SchedulerStep
    <2>3. Enqueue(p) => \E j \in Jobs : Ledger!Accept(p, j)
      BY DEF Enqueue, SchedulerStep
    <2> QED
      BY <1>2, <2>1, <2>2, <2>3, Zenon DEF Ledger!Next
  <1>3. ASSUME \/ \E x \in Queued : Cancel(x)
               \/ \E m \in CloseModes : Close(m)
        PROVE  Ledger!Next
    <2>1. \A x \in Queued : Cancel(x) => x \in Ledger!Queued /\ Ledger!Cancel(x)
      BY DEF Cancel, SchedulerStep, Queued
    <2>2. \A m \in CloseModes : m \in {"drain", "immediate"} /\ (Close(m) => Ledger!Close(m))
      BY AsyncAssumption DEF Close, SchedulerStep
    <2> QED
      BY <1>3, <2>1, <2>2, Zenon DEF Ledger!Next
  <1>4. ASSUME NEW t, Dequeue(t)
        PROVE  Ledger!Next \/ UNCHANGED ledgerVars
    <2>1. EnterTryDequeue(t) \/ NothingLeft(t) \/ SeeClosed(t) => UNCHANGED ledgerVars
      BY DEF EnterTryDequeue, NothingLeft, SeeClosed, QuietStep
    <2>2. (\E x \in Queued : Take(t, x)) => \E x \in Ledger!Queued : Ledger!Deliver(x)
      BY DEF Take, Queued
    <2> QED
      BY <1>4, <2>1, <2>2, Zenon DEF Dequeue, Ledger!Next
  <1>5. ASSUME WorkerStep
        PROVE  Ledger!Next \/ UNCHANGED ledgerVars
    <2>1. Look \/ TimeOut \/ StopAtClosed \/ BlockingSend \/ SendFails => UNCHANGED ledgerVars
      BY DEF Look, TimeOut, StopAtClosed, BlockingSend, SendFails, HandOver, QuietStep
    <2> QED
      BY <1>4, <1>5, <2>1 DEF WorkerStep
  <1>6. Recv \/ CloseRx \/ DropStep => UNCHANGED ledgerVars
    BY DEF Recv, CloseRx, DropStep, DropRx, RaiseShutdown, Join, ReceiverGoes
  <1>7. StreamStep \/ DropPending \/ RunStep \/ AbortRun => UNCHANGED ledgerVars
    <2>1. \A u, s : Awaited(u, s) => UNCHANGED ledgerVars
      BY DEF Awaited
    <2>2. \A u : SpawnBlocking(u) => UNCHANGED ledgerVars
      BY DEF SpawnBlocking
    <2> QED
      BY <2>1, <2>2 DEF StreamStep, Yield, YieldNone, DropPending, RunStep, NextTask, LoopEnds,
                        SpawnHandler, Return, AbortRun
  <1>8. \/ \E t \in Pool : Orphan(t)
        \/ \E x \in running : StartHandler(x) \/ EndHandler(x)
        => UNCHANGED ledgerVars
    BY DEF Orphan, StartHandler, EndHandler
  <1> QED
    BY <1>1, <1>2, <1>3, <1>4, <1>5, <1>6, <1>7, <1>8 DEF Next, vars

\* Whatever the threads, the users and the dispatcher do, the scheduler sees a
\* behaviour that TaskLedger allows: what they take is settled once, and in order.
THEOREM AsyncUsesLedger == Spec => Ledger!Spec
  <1>1. Init => Ledger!Init
    BY DEF Init
  <1> QED
    BY <1>1, AsyncStepOfLedger, PTL DEF Spec, Ledger!Spec
=============================================================================
