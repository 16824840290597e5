----------------------------- MODULE TowerLayer -----------------------------
(***************************************************************************)
(* firq-tower: FirqService::call enqueues a FirqPermit, the sending half   *)
(* of a oneshot channel, and returns a future that waits for a permit on   *)
(* the other half.  One worker thread takes the tasks from the scheduler,  *)
(* acquires a permit of the in-flight semaphore for each and sends it.     *)
(* Futures may be dropped at any await, anybody may close the scheduler,   *)
(* and the last layer or service to go stops the worker.                   *)
(*                                                                         *)
(* The scheduler is the one TaskLedger describes, which Scheduler          *)
(* implements: its operations are the ledger's steps.                      *)
(***************************************************************************)
EXTENDS Naturals, Sequences, FiniteSets

CONSTANTS
  Calls,          \* the calls of FirqService::call, one future each
  TenantOf,       \* what the key extractor returns for each call
  Deadlined,      \* the calls for which the deadline extractor gives one
  Replacing,      \* the tenants under a DropOldest or DropNewest policy
  InFlightLimit,  \* with_in_flight_limit
  MaxGlobal,      \* with_max_global
  MaxPerTenant,   \* with_max_per_tenant
  CloseModes      \* the close_* calls made on layer.scheduler()

VARIABLES
  mode, job, overdue, status, inside,  \* the scheduler
  future,   \* the state of each call's future
  handle,   \* the TaskHandle each call got, or 0
  sent,     \* the calls with a permit in their channel
  permits,  \* in_flight.available_permits()
  worker,   \* where the worker thread is
  hand,     \* the task the worker has taken from the scheduler, or 0
  owner     \* how far BackgroundWorker::drop has got

Ids == 1 .. Cardinality(Calls)
Job(r) == [tenant |-> TenantOf[r], prio |-> 1, deadline |-> r \in Deadlined,
           call |-> r]
Ledger == INSTANCE TaskLedger WITH
  Callers <- Calls, Requests <- {Job(r) : r \in Calls}

ledgerVars == <<mode, job, overdue, status, inside>>
callVars  == <<future, handle, sent>>
layerVars == <<permits, worker, hand, owner>>
vars == <<ledgerVars, callVars, layerVars>>

ASSUME TowerAssumption ==
  /\ IsFiniteSet(Calls) /\ Deadlined \subseteq Calls
  /\ {InFlightLimit, MaxGlobal, MaxPerTenant} \subseteq Nat
  /\ CloseModes \subseteq {"drain", "immediate"}

Limit == IF InFlightLimit = 0 THEN 1 ELSE InFlightLimit
InFlightActive == IF permits > Limit THEN 0 ELSE Limit - permits
Queued == Ledger!Queued
Shutdown == owner # "live"

ShutNever == TRUE                       \* mutant: drop forgets in_flight.close
SemaphoreOpen == owner \in {"live", "flagged"}

\* The receiving half of a call's channel: it dies with the future.
OutlivesFuture(r) == future[r] \notin {"serving", "served"}  \* mutant
Receiving(r) == future[r] \in {"made", "waiting"}

\* The sending half went down with the task: expired, dropped by a policy, or
\* let go by a worker that stopped.
SenderGone(r) ==
  LET x == handle[r]
  IN  \/ status[x] \in {"expired", "dropped"}
      \/ status[x] = "delivered" /\ hand # x /\ r \notin sent

Init ==
  /\ Ledger!Init
  /\ future = [r \in Calls |-> "none"]
  /\ handle = [r \in Calls |-> 0]
  /\ sent = {}
  /\ permits = Limit
  /\ worker = "look" /\ hand = 0
  /\ owner = "live"

Becomes(r, s) == future' = [future EXCEPT ![r] = s]
-----------------------------------------------------------------------------
(* FirqService::call. *)

Call(r) ==
  /\ owner = "live" /\ future[r] = "none"
  /\ \/ Ledger!Admit(r) /\ Becomes(r, "calling")
     \/ mode # "open" /\ Becomes(r, "closed") /\ UNCHANGED ledgerVars
  /\ UNCHANGED <<handle, sent, layerVars>>

\* A call that finds its tenant full may drop one of its tasks, and its sender.
Replace(r) ==
  /\ future[r] = "calling" /\ TenantOf[r] \in Replacing
  /\ \E x \in Queued : job[x].tenant = TenantOf[r] /\ Ledger!Drop(r, x)
  /\ UNCHANGED <<callVars, layerVars>>

Enqueue(r) ==
  /\ future[r] = "calling"
  /\ Ledger!Accept(r, Job(r))
  /\ handle' = [handle EXCEPT ![r] = Len(job')]
  /\ Becomes(r, "made")
  /\ UNCHANGED <<sent, layerVars>>

TurnDown(r) ==
  /\ future[r] = "calling"
  /\ Ledger!Refuse(r)
  /\ \E s \in {"rejected", "closed"} : (s = "closed" => mode # "open") /\ Becomes(r, s)
  /\ UNCHANGED <<handle, sent, layerVars>>

-----------------------------------------------------------------------------
(* The future it returns. *)

\* The guard that cancels the task exists from the first poll on.
FirstPoll(r) ==
  /\ future[r] = "made" /\ Becomes(r, "waiting")
  /\ UNCHANGED <<ledgerVars, handle, sent, layerVars>>

StartInner(r) ==
  /\ future[r] = "waiting" /\ r \in sent
  /\ Becomes(r, "serving") /\ sent' = sent \ {r}
  /\ UNCHANGED <<ledgerVars, handle, layerVars>>

PermitError(r) ==
  /\ future[r] = "waiting" /\ SenderGone(r)
  /\ Becomes(r, "failed")
  /\ UNCHANGED <<ledgerVars, handle, sent, layerVars>>

\* The inner service answers or fails; either way the permit is dropped.
FinishInner(r) ==
  /\ future[r] = "serving" /\ Becomes(r, "served")
  /\ permits' = permits + 1
  /\ UNCHANGED <<ledgerVars, handle, sent, worker, hand, owner>>

\* The permit a future holds when it is dropped, in its channel or in itself.
HeldOnlyServing(r) == IF future[r] = "serving" THEN 1 ELSE 0  \* mutant
PermitsHeld(r) == IF r \in sent \/ future[r] = "serving" THEN 1 ELSE 0

\* The client drops the future: its receiver goes first, the guard cancels next.
DropFuture(r) ==
  /\ future[r] \in {"made", "waiting", "serving"}
  /\ Becomes(r, IF future[r] = "waiting" THEN "dropping" ELSE "dropped")
  /\ permits' = permits + PermitsHeld(r)
  /\ sent' = sent \ {r}
  /\ UNCHANGED <<ledgerVars, handle, worker, hand, owner>>

CancelOnDrop(r) ==
  /\ future[r] = "dropping" /\ Becomes(r, "dropped")
  /\ IF handle[r] \in Queued THEN Ledger!Cancel(handle[r])
     ELSE UNCHANGED ledgerVars
  /\ UNCHANGED <<handle, sent, layerVars>>

-----------------------------------------------------------------------------
(* The worker thread of FirqLayer::new. *)

WorkerGoes(s) == worker' = s /\ UNCHANGED <<permits, owner>>

Look ==
  /\ worker = "look" /\ WorkerGoes(IF Shutdown THEN "ended" ELSE "dequeue")
  /\ UNCHANGED <<ledgerVars, callVars, hand>>

ClosedFor == mode = "immediate" \/ (mode = "drain" /\ Queued = {})
EnterTryDequeue ==
  /\ worker = "dequeue" /\ mode # "immediate" /\ Queued # {}
  /\ WorkerGoes("scan") /\ UNCHANGED <<ledgerVars, callVars, hand>>

Take(x) ==
  /\ worker = "scan" /\ Ledger!Deliver(x)
  /\ hand' = x /\ WorkerGoes("acquire") /\ UNCHANGED callVars

NothingLeft ==
  /\ worker = "scan" /\ Queued = {}
  /\ WorkerGoes("dequeue") /\ UNCHANGED <<ledgerVars, callVars, hand>>

SeeClosed ==
  /\ worker = "dequeue" /\ ClosedFor
  /\ WorkerGoes("ended") /\ UNCHANGED <<ledgerVars, callVars, hand>>

NoneFree == permits = 0                 \* mutant: try_acquire for acquire
AcquireFails == ~SemaphoreOpen

Acquire ==
  /\ worker = "acquire" /\ ~AcquireFails /\ permits > 0
  /\ permits' = permits - 1 /\ worker' = "send"
  /\ UNCHANGED <<ledgerVars, callVars, hand, owner>>

GiveUp ==
  /\ worker = "acquire" /\ AcquireFails
  /\ hand' = 0 /\ WorkerGoes("ended")
  /\ UNCHANGED <<ledgerVars, callVars>>

EndIfRefused(r) == IF Receiving(r) THEN "look" ELSE "ended"   \* mutant
AfterSend(r) == "look"

\* A permit nobody receives comes back in the error and is dropped.
Send ==
  LET r == job[hand].call
  IN  /\ worker = "send"
      /\ IF Receiving(r) THEN sent' = sent \cup {r} /\ UNCHANGED permits
         ELSE permits' = permits + 1 /\ UNCHANGED sent
      /\ hand' = 0 /\ worker' = AfterSend(r)
      /\ UNCHANGED <<ledgerVars, future, handle, owner>>

-----------------------------------------------------------------------------
(* BackgroundWorker::drop, and the rest of the scheduler's users. *)

OwnerGoes(from, to) == /\ owner = from /\ owner' = to
                       /\ UNCHANGED <<callVars, permits, worker, hand>>

\* The last clone goes; no call is under way, for it borrows a service.
SetShutdown ==
  /\ \A r \in Calls : future[r] # "calling"
  /\ OwnerGoes("live", "flagged") /\ UNCHANGED ledgerVars
CloseSemaphore == OwnerGoes("flagged", "shut") /\ UNCHANGED ledgerVars
CloseScheduler ==
  /\ OwnerGoes("shut", "joining")
  /\ IF mode = "immediate" THEN UNCHANGED ledgerVars
     ELSE Ledger!Close("immediate")
Join == /\ worker = "ended" /\ OwnerGoes("joining", "gone")
        /\ UNCHANGED ledgerVars

Close(m) == Ledger!Close(m) /\ UNCHANGED <<callVars, layerVars>>
PassTime(x) == Ledger!PassTime(x) /\ UNCHANGED <<callVars, layerVars>>
\* A dequeue or an enqueue comes upon an overdue task and drops its sender.
Expire(x) ==
  /\ worker = "scan" \/ inside # {}
  /\ Ledger!Expire({x})
  /\ UNCHANGED <<inside, callVars, layerVars>>

Poll(r) == FirstPoll(r) \/ StartInner(r) \/ PermitError(r)
WorkerStep ==
  \/ Look \/ EnterTryDequeue \/ NothingLeft \/ SeeClosed
  \/ Acquire \/ GiveUp \/ Send
  \/ \E x \in Queued : Take(x)
DropStep == SetShutdown \/ CloseSemaphore \/ CloseScheduler \/ Join

Next ==
  \/ \E r \in Calls : \/ Call(r) \/ Replace(r) \/ Enqueue(r) \/ TurnDown(r)
                      \/ Poll(r) \/ FinishInner(r)
                      \/ DropFuture(r) \/ CancelOnDrop(r)
  \/ WorkerStep \/ DropStep
  \/ \E m \in CloseModes : Close(m)
  \/ \E x \in DOMAIN job : PassTime(x)
  \/ \E x \in Queued : Expire(x)

Spec == Init /\ [][Next]_vars

\* Calls return and futures that were returned are polled when they can go on;
\* a dropped future finishes dropping; the worker and a drop of the layer run.
\* Nothing makes a client drop a future or an inner service answer.
Fairness ==
  /\ \A r \in Calls : /\ WF_vars(Enqueue(r) \/ TurnDown(r))
                      /\ WF_vars(Poll(r) \/ CancelOnDrop(r))
  /\ WF_vars(WorkerStep)
  /\ WF_vars(CloseSemaphore \/ CloseScheduler \/ Join)
FairSpec == Spec /\ Fairness
=============================================================================
