--------------------------- MODULE AsyncConsumers ---------------------------
(***************************************************************************)
(* firq-async: three ways to consume one scheduler from async code.        *)
(*   - AsyncWorkerReceiver: a thread of its own dequeues with a timeout    *)
(*     and sends into a bounded channel;                                   *)
(*   - AsyncReceiver and AsyncStream: each item is one dequeue_blocking on *)
(*     a thread of Tokio's blocking pool, whose result the awaiting future *)
(*     gets, or nobody when that future was dropped;                       *)
(*   - Dispatcher::run: the same dequeues in a loop, and a semaphore that  *)
(*     bounds the handlers it spawns.                                      *)
(* The scheduler is the one TaskLedger describes.                          *)
(***************************************************************************)
EXTENDS Naturals, Sequences, FiniteSets

CONSTANTS
  Apps,          \* which users an application has: a set of sets of Users
  Submitters,    \* threads that enqueue
  Jobs,          \* what they enqueue: [tenant, prio, deadline]
  NumTasks,      \* bound: how many tasks are ever accepted
  Pool,          \* bound: threads of the blocking pool in use at once
  Worker,        \* the thread of the AsyncWorkerReceiver
  NoThread,
  Buffer,        \* capacity asked for its channel
  MaxInFlight,   \* handlers asked for
  U32,           \* 2^32, the range of acquire_many's argument
  MaxGiveUps,    \* bound: how often a pending recv or next is dropped
  MaxGlobal, MaxPerTenant, CloseModes

Ids == 1 .. NumTasks
Threads == Pool \cup {Worker}
Users == {"receiver", "stream", "dispatcher"}   \* who gets tasks

VARIABLES
  mode, job, overdue, status, inside,  \* the scheduler
  dequeuer,  \* where each thread is in its dequeue
  item,      \* the task it has taken, or 0
  rx,        \* how far the drop of the AsyncWorkerReceiver has got
  channel,   \* its mpsc channel
  call,      \* the pool thread whose result each pool user awaits
  run,       \* where Dispatcher::run is
  next,      \* the task it wants a permit for, or 0
  permits, running,  \* its semaphore, and the spawned tasks that hold a permit
  started,   \* history: the tasks whose handler was called, in order
  ended,     \* the users told that no task will come
  got,       \* history: the tasks each user got, in order; the dispatcher those
             \* it spawned
  lost,      \* history: the tasks taken from the scheduler for nobody
  giveUps    \* how many calls were dropped while pending

ledgerVars   == <<mode, job, overdue, status, inside>>
receiverVars == <<rx, channel>>
runVars      == <<run, next, permits, running, started>>
vars == <<ledgerVars, dequeuer, item, receiverVars, call, runVars, ended, got,
          lost, giveUps>>

Ledger == INSTANCE TaskLedger WITH Callers <- Submitters, Requests <- Jobs

ASSUME AsyncAssumption ==
  /\ Apps # {} /\ \A a \in Apps : a \subseteq Users
  /\ IsFiniteSet(Pool) /\ Worker \notin Pool /\ NoThread \notin Threads
  /\ {NumTasks, Buffer, MaxInFlight, U32, MaxGiveUps} \subseteq Nat /\ U32 > 0
  /\ CloseModes \subseteq {"drain", "immediate"}

Limit == IF MaxInFlight = 0 THEN 1 ELSE MaxInFlight
Capacity == IF Buffer = 0 THEN 1 ELSE Buffer
Queued == Ledger!Queued
Shutdown == rx \in {"joining", "joined"}

Init ==
  /\ Ledger!Init
  /\ item = [t \in Threads |-> 0]
  /\ channel = <<>>
  /\ call = [u \in {"stream", "dispatcher"} |-> NoThread]
  /\ next = 0 /\ permits = Limit /\ running = {} /\ started = <<>>
  /\ got = [u \in Users |-> <<>>]
  /\ lost = {} /\ giveUps = 0
  /\ \E present \in Apps :   \* a user the application lacks is done already
       /\ ended = Users \ present
       /\ run = IF "dispatcher" \in present THEN "loop" ELSE "returned"
       /\ rx = IF "receiver" \in present THEN "open" ELSE "joined"
       /\ dequeuer = [t \in Threads |-> IF t = Worker /\ "receiver" \notin present
                                       THEN "ended" ELSE "idle"]

-----------------------------------------------------------------------------
(* AsyncScheduler: calls passed on to the scheduler. *)

SchedulerStep(A) ==
  A /\ UNCHANGED <<dequeuer, item, receiverVars, call, runVars, ended, got,
                   lost, giveUps>>

Enter(p) == SchedulerStep(Ledger!Admit(p))
Refuse(p) == p \in inside /\ SchedulerStep(Ledger!Refuse(p))
Enqueue(p) == \E j \in Jobs : SchedulerStep(Ledger!Accept(p, j))
Cancel(x) == SchedulerStep(Ledger!Cancel(x))
Close(m) == SchedulerStep(Ledger!Close(m))

-----------------------------------------------------------------------------
(* A thread inside dequeue_blocking or dequeue_blocking_timeout. *)

Goes(t, s) == dequeuer' = [dequeuer EXCEPT ![t] = s]
ThreadStep(t, from, to) ==
  /\ dequeuer[t] = from /\ Goes(t, to)
  /\ UNCHANGED <<receiverVars, call, runVars, ended, got, lost, giveUps>>
QuietStep(t, from, to) == ThreadStep(t, from, to) /\ UNCHANGED <<ledgerVars, item>>

ClosedFor == mode = "immediate" \/ (mode = "drain" /\ Queued = {})

EnterTryDequeue(t) ==
  mode # "immediate" /\ Queued # {} /\ QuietStep(t, "dequeue", "scan")
Take(t, x) ==
  /\ Ledger!Deliver(x) /\ item' = [item EXCEPT ![t] = x]
  /\ ThreadStep(t, "scan", "task")
NothingLeft(t) == Queued = {} /\ QuietStep(t, "scan", "dequeue")
SeeClosed(t) == ClosedFor /\ QuietStep(t, "dequeue", "closed")

Dequeue(t) ==
  \/ EnterTryDequeue(t) \/ NothingLeft(t) \/ SeeClosed(t)
  \/ \E x \in Queued : Take(t, x)

-----------------------------------------------------------------------------
(* AsyncWorkerReceiver: its thread, recv and poll_next, and its drop. *)

Look == QuietStep(Worker, "idle", IF Shutdown THEN "ended" ELSE "dequeue")
NoTimeout == FALSE                       \* mutant: dequeue_blocking instead
MayTimeOut == Queued = {} /\ ~ClosedFor  \* its last look found neither
TimeOut == MayTimeOut /\ QuietStep(Worker, "dequeue", "idle")
KeepLooking == "idle"                    \* mutant: treats Closed as Empty
AfterClosed == "ended"
StopAtClosed == QuietStep(Worker, "closed", AfterClosed)

PutFirst(s, x) == <<x>> \o s             \* mutant: last in, first out
Put(s, x) == Append(s, x)
Unbounded == TRUE                        \* mutant: an unbounded channel
HasRoom == Len(channel) < Capacity

HandOver(s) ==
  /\ dequeuer[Worker] = "task" /\ Goes(Worker, s)
  /\ item' = [item EXCEPT ![Worker] = 0]
  /\ UNCHANGED <<ledgerVars, rx, call, runVars, ended, got, giveUps>>

\* blocking_send waits for room; once the receiver is closed it fails, and the
\* thread ends with the task it had taken.
BlockingSend ==
  /\ rx = "open" /\ HasRoom
  /\ channel' = Put(channel, item[Worker])
  /\ HandOver("idle") /\ UNCHANGED lost
SendFails ==
  /\ rx # "open" /\ lost' = lost \cup {item[Worker]}
  /\ HandOver("ended") /\ UNCHANGED channel

Recv ==
  /\ rx = "open"
  /\ \/ /\ channel # <<>> /\ channel' = Tail(channel)
        /\ got' = [got EXCEPT !["receiver"] = Append(@, Head(channel))]
        /\ UNCHANGED ended
     \/ /\ channel = <<>> /\ dequeuer[Worker] = "ended"
        /\ ended' = ended \cup {"receiver"} /\ UNCHANGED <<channel, got>>
  /\ UNCHANGED <<ledgerVars, dequeuer, item, rx, call, runVars, lost, giveUps>>

\* Drop closes the channel, then its fields go in order: the channel with what
\* it still holds, then the handle that raises shutdown and joins the thread.
ReceiverGoes(from, to) ==
  /\ rx = from /\ rx' = to
  /\ UNCHANGED <<ledgerVars, dequeuer, item, call, runVars, ended, got, giveUps>>
CloseRx == ReceiverGoes("open", "closed") /\ UNCHANGED <<channel, lost>>
DropRx  == /\ ReceiverGoes("closed", "dropped") /\ channel' = <<>>
           /\ lost' = lost \cup {channel[i] : i \in DOMAIN channel}
RaiseShutdown == ReceiverGoes("dropped", "joining") /\ UNCHANGED <<channel, lost>>
Join == /\ dequeuer[Worker] = "ended"
        /\ ReceiverGoes("joining", "joined") /\ UNCHANGED <<channel, lost>>

-----------------------------------------------------------------------------
(* dequeue_async, under AsyncReceiver::recv, AsyncStream::poll_next and the   *)
(* loop of Dispatcher::run.                                                   *)

Asks(u) == IF u = "stream" THEN u \notin ended ELSE run = "loop"
SpawnBlocking(u) ==
  LET idle == {t \in Pool : dequeuer[t] = "idle"}
      t == CHOOSE t \in idle : TRUE       \* any will do
  IN  /\ Asks(u) /\ call[u] = NoThread /\ idle # {}
      /\ Goes(t, "dequeue") /\ call' = [call EXCEPT ![u] = t]
      /\ UNCHANGED <<ledgerVars, item, receiverVars, runVars, ended, got, lost, giveUps>>

\* The future wakes up with the result of its thread.
Awaited(u, result) ==
  /\ call[u] # NoThread /\ dequeuer[call[u]] = result
  /\ Goes(call[u], "idle") /\ item' = [item EXCEPT ![call[u]] = 0]
  /\ call' = [call EXCEPT ![u] = NoThread]
  /\ UNCHANGED <<ledgerVars, receiverVars, permits, running, started, lost, giveUps>>

HandedBack(t) == {}                      \* mutant: takes it for undone
Wasted(t) == {item[t]} \ {0}
\* The thread goes on when the future that waits for it is dropped; what it
\* takes then is dropped with the result of its JoinHandle.
Orphan(t) ==
  /\ \A u \in DOMAIN call : call[u] # t
  /\ dequeuer[t] \in {"task", "closed"} /\ Goes(t, "idle")
  /\ lost' = lost \cup Wasted(t) /\ item' = [item EXCEPT ![t] = 0]
  /\ UNCHANGED <<ledgerVars, receiverVars, call, runVars, ended, got, giveUps>>

Yield ==
  /\ Awaited("stream", "task")
  /\ got' = [got EXCEPT !["stream"] = Append(@, item[call["stream"]])]
  /\ UNCHANGED <<run, next, ended>>
YieldNone ==
  /\ Awaited("stream", "closed")
  /\ ended' = ended \cup {"stream"} /\ UNCHANGED <<run, next, got>>

\* The future of recv, or the stream, is dropped while it waits.
DropPending ==
  /\ call["stream"] # NoThread /\ giveUps < MaxGiveUps
  /\ call' = [call EXCEPT !["stream"] = NoThread] /\ giveUps' = giveUps + 1
  /\ UNCHANGED <<ledgerVars, dequeuer, item, receiverVars, runVars, ended, got, lost>>

-----------------------------------------------------------------------------
(* Dispatcher::run. *)

NextTask ==
  /\ Awaited("dispatcher", "task")
  /\ run' = "acquire" /\ next' = item[call["dispatcher"]]
  /\ UNCHANGED <<ended, got>>
LoopEnds ==
  /\ Awaited("dispatcher", "closed")
  /\ run' = "wait" /\ UNCHANGED <<next, ended, got>>

NotHeld(n) == n                        \* mutant: the permit stays outside the task
LessOne(n) == n - 1
\* tokio::spawn: the permit and the task move into a future of its own.
SpawnHandler ==
  /\ run = "acquire" /\ permits > 0
  /\ permits' = LessOne(permits) /\ running' = running \cup {next}
  /\ got' = [got EXCEPT !["dispatcher"] = Append(@, next)]
  /\ run' = "loop" /\ next' = 0
  /\ UNCHANGED <<ledgerVars, dequeuer, item, receiverVars, call, started, ended,
                 lost, giveUps>>

HasStarted(x) == \E i \in DOMAIN started : started[i] = x

\* Some thread of the runtime polls the future for the first time, which calls
\* the handler; futures that wait for it are taken in no particular order.
StartHandler(x) ==
  /\ ~HasStarted(x) /\ started' = Append(started, x)
  /\ UNCHANGED <<ledgerVars, dequeuer, item, receiverVars, call, run, next, permits,
                 running, ended, got, lost, giveUps>>

\* A handler returns or panics; its task drops the permit either way.
EndHandler(x) ==
  /\ HasStarted(x)
  /\ running' = running \ {x} /\ permits' = permits + 1
  /\ UNCHANGED <<ledgerVars, dequeuer, item, receiverVars, call, run, next, started,
                 ended, got, lost, giveUps>>

WaitForOne == 1                        \* mutant: acquire for acquire_many
WaitFor == Limit % U32                 \* max_in_flight as u32
Return ==
  /\ run = "wait" /\ permits >= WaitFor
  /\ run' = "returned" /\ ended' = ended \cup {"dispatcher"}
  /\ UNCHANGED <<ledgerVars, dequeuer, item, receiverVars, call, next, permits,
                 running, started, got, lost, giveUps>>

\* The future of run is dropped, with the task it may hold.
AbortRun ==
  /\ run \in {"loop", "acquire", "wait"} /\ giveUps < MaxGiveUps
  /\ run' = "aborted" /\ giveUps' = giveUps + 1
  /\ call' = [call EXCEPT !["dispatcher"] = NoThread]
  /\ lost' = lost \cup ({next} \ {0}) /\ next' = 0
  /\ UNCHANGED <<ledgerVars, dequeuer, item, receiverVars, permits, running, started,
                 ended, got>>

WorkerStep == \/ Look \/ TimeOut \/ StopAtClosed \/ BlockingSend \/ SendFails
              \/ Dequeue(Worker)
DropStep == DropRx \/ RaiseShutdown \/ Join
StreamStep == Yield \/ YieldNone \/ SpawnBlocking("stream")
RunStep == NextTask \/ LoopEnds \/ SpawnHandler \/ Return
             \/ SpawnBlocking("dispatcher")

Next ==
  \/ \E p \in Submitters : Enter(p) \/ Refuse(p) \/ Enqueue(p)
  \/ \E x \in Queued : Cancel(x)
  \/ \E m \in CloseModes : Close(m)
  \/ WorkerStep \/ Recv \/ CloseRx \/ DropStep
  \/ \E t \in Pool : Dequeue(t) \/ Orphan(t)
  \/ StreamStep \/ DropPending
  \/ RunStep \/ AbortRun \/ \E x \in running : StartHandler(x) \/ EndHandler(x)

Spec == Init /\ [][Next]_vars

\* Threads run, woken futures are polled, and users ask for the next item until
\* there is none; handlers end.  Nothing makes anyone give up, close or drop.
Fairness ==
  /\ WF_vars(WorkerStep) /\ WF_vars(DropStep)
  /\ \A t \in Pool : WF_vars(Dequeue(t) \/ Orphan(t))
  /\ WF_vars(Recv) /\ WF_vars(StreamStep) /\ WF_vars(RunStep)
  /\ \A x \in Ids : WF_vars(x \in running /\ (StartHandler(x) \/ EndHandler(x)))
FairSpec == Spec /\ Fairness
=============================================================================
