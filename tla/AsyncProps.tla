----------------------------- MODULE AsyncProps -----------------------------
(***************************************************************************)
(* What firq-async promises its users: every task taken from the scheduler *)
(* is accounted for, order is kept, the dispatcher's bound holds, and      *)
(* closing or dropping ends every thread.                                  *)
(***************************************************************************)
EXTENDS AsyncConsumers

\* Every variable has its type; a thread holds a task exactly while it has one
\* to hand over, and the dispatcher exactly while it waits for a permit.
AsyncTypeInv ==
  /\ mode \in {"open", "drain", "immediate"}
  /\ job \in Seq(Jobs) /\ inside \subseteq Submitters
  /\ dequeuer \in [Threads -> {"idle", "dequeue", "scan", "task", "closed", "ended"}]
  /\ item \in [Threads -> {0} \cup DOMAIN job]
  /\ \A t \in Threads : item[t] # 0 <=> dequeuer[t] = "task"
  /\ rx \in {"open", "closed", "dropped", "joining", "joined"}
  /\ channel \in Seq(DOMAIN job) /\ Len(channel) <= Capacity
  /\ call \in [{"stream", "dispatcher"} -> Pool \cup {NoThread}]
  /\ \A u, v \in DOMAIN call : call[u] = call[v] => u = v \/ call[u] = NoThread
  /\ run \in {"loop", "acquire", "wait", "returned", "aborted"}
  /\ IF run = "acquire" THEN next \in DOMAIN job ELSE next = 0
  /\ permits \in 0 .. Limit /\ running \subseteq DOMAIN job
  /\ ended \subseteq Users /\ got \in [Users -> Seq(DOMAIN job)]
  /\ lost \subseteq DOMAIN job /\ giveUps \in 0 .. MaxGiveUps

Fates == {"none", "queued", "delivered", "expired", "dropped", "cancelled"}
Delivered == {x \in Ids : status[x] = "delivered"}
Holding == {t \in Threads : item[t] # 0}

\* A task the scheduler counts as dequeued is in one place: a thread's hand, the
\* channel, the dispatcher's hand, a user, or lost.  And only giving up loses
\* tasks: at most one for every pending call that was dropped, and what filled
\* the channel and the worker's hand for a dropped receiver (lib.rs 137, 240,
\* 262-266, 355).
TasksAccounted ==
  /\ Cardinality(Delivered)
       = Cardinality(Holding) + Len(channel) + (IF next = 0 THEN 0 ELSE 1)
         + Len(got["receiver"]) + Len(got["stream"]) + Len(got["dispatcher"])
         + Cardinality(lost)
  /\ Cardinality(lost) <= giveUps + (IF rx = "open" THEN 0 ELSE Capacity + 1)

\* Each user gets the tasks of one tenant and priority in the order they were
\* accepted, through a channel and after an abandoned call; the dispatcher spawns
\* their handlers in that order (lib.rs 236-247, 346-363).
OrderKept ==
  \A u \in Users : \A i, j \in DOMAIN got[u] :
    i < j /\ Ledger!SameQueue(got[u][i], got[u][j]) => got[u][i] < got[u][j]

\* The runtime may start spawned handlers in another order (lib.rs 360-361), but
\* each of them holds a permit: when a handler starts, fewer than max_in_flight
\* older tasks of its tenant and priority are spawned and not started, and it is
\* the oldest if max_in_flight is 1.
Older(x, y) == Ledger!SameQueue(x, y) /\ x < y
Spawned == {got["dispatcher"][k] : k \in DOMAIN got["dispatcher"]}
Passed(i) ==
  {y \in Spawned : Older(y, started[i]) /\ \A k \in 1 .. i : started[k] # y}
StartsInOrder == \A i \in DOMAIN started : Cardinality(Passed(i)) < Limit

\* At most max_in_flight handlers run, panics included, and when run returns as
\* many may still run as the cast of the limit to u32 cuts off: none, so long as
\* the limit fits (lib.rs 355-372).
HandlersGated ==
  /\ Cardinality(running) + permits = Limit
  /\ run = "returned" => Cardinality(running) <= Limit - (Limit % U32)

-----------------------------------------------------------------------------
(* What makes these inductive. *)

\* Threads that still dequeue for a call somebody dropped.
Orphans == {t \in Pool : dequeuer[t] # "idle" /\ \A u \in DOMAIN call : call[u] # t}

\* A call is under way in the thread that runs it, for a user that asks; handles
\* number the accepted tasks, and every task anyone has was delivered.
CallsServed ==
  /\ \A u \in DOMAIN call :
       call[u] # NoThread => dequeuer[call[u]] \notin {"idle", "ended"}
  /\ call["dispatcher"] # NoThread => run = "loop"
  /\ \A t \in Pool : dequeuer[t] # "ended"
  /\ DOMAIN job \subseteq Ids /\ status \in [Ids -> Fates]
  /\ \A x \in Ids : status[x] = "none" <=> x \notin DOMAIN job
  /\ {item[t] : t \in Holding} \cup ({next} \ {0}) \cup lost \cup running \subseteq Delivered
  /\ \A i \in DOMAIN channel : channel[i] \in Delivered
  /\ \A u \in Users : \A i \in DOMAIN got[u] : got[u][i] \in Delivered

\* No task is in two places of those it may move on from, nor there and lost, nor
\* there and with a handler.
TasksApart ==
  /\ \A s, t \in Holding : item[s] = item[t] => s = t
  /\ \A i, j \in DOMAIN channel : channel[i] = channel[j] => i = j
  /\ \A t \in Holding : item[t] # next /\ item[t] \notin lost \cup running
  /\ \A i \in DOMAIN channel :
       /\ \A t \in Holding : item[t] # channel[i]
       /\ channel[i] # next /\ channel[i] \notin lost \cup running
  /\ next \notin lost \cup running

\* What a dropped receiver may still lose or has lost, and what orphans may.
ReceiverLoses ==
  IF rx = "open" THEN 0
  ELSE (IF rx = "closed" THEN 0 ELSE Capacity)
         + (IF dequeuer[Worker] = "ended" THEN 1 ELSE 0)
LossesBounded ==
  Cardinality(lost) + Cardinality(Orphans) <= giveUps + ReceiverLoses

\* What is on its way to a user was accepted after what the user has, and what is
\* queued after all that.
Before(x, y) == Ledger!SameQueue(x, y) => x < y
OrderOnTheWay ==
  /\ \A x \in Delivered, y \in Queued : Before(x, y)
  /\ \A i, j \in DOMAIN channel : i < j => Before(channel[i], channel[j])
  /\ \A i \in DOMAIN channel :
       /\ item[Worker] # 0 => Before(channel[i], item[Worker])
       /\ \A k \in DOMAIN got["receiver"] : Before(got["receiver"][k], channel[i])
  /\ item[Worker] # 0 =>
       \A k \in DOMAIN got["receiver"] : Before(got["receiver"][k], item[Worker])
  /\ \A u \in DOMAIN call : call[u] # NoThread /\ item[call[u]] # 0 =>
       \A k \in DOMAIN got[u] : Before(got[u][k], item[call[u]])
  /\ next # 0 => \A k \in DOMAIN got["dispatcher"] : Before(got["dispatcher"][k], next)

AsyncInv ==
  /\ AsyncTypeInv /\ CallsServed /\ TasksApart
  /\ TasksAccounted /\ LossesBounded
  /\ OrderKept /\ OrderOnTheWay
  /\ HandlersGated

\* A handler starts once and after it was spawned, and a spawned one that has not
\* started holds its permit.
StartsInv ==
  /\ started \in Seq(Spawned) /\ running \subseteq Spawned
  /\ \A x \in Spawned : x \in running \/ HasStarted(x)
  /\ \A i, j \in DOMAIN started : started[i] = started[j] => i = j
  /\ StartsInOrder

-----------------------------------------------------------------------------
\* Dropping the receiver returns although its thread may be waiting for a task
\* or for room in the channel (lib.rs 211-219, 262-266).
ReceiverDropReturns == (rx = "closed") ~> (rx = "joined")

\* Once the scheduler is closed every user that keeps asking is told so, after
\* the tasks it still gets, or has stopped asking (lib.rs 183, 257, 365).
CloseEndsUsers ==
  (mode # "open") ~> /\ "receiver" \in ended \/ rx # "open"
                     /\ "stream" \in ended
                     /\ run \in {"returned", "aborted"}
=============================================================================
