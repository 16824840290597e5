----------------------------- MODULE TowerProps -----------------------------
(***************************************************************************)
(* What firq-tower promises: permits are never lost or made up, a request  *)
(* fails only for a reason, nobody waits for ever while permits come back, *)
(* and dropping the layer always returns.                                  *)
(***************************************************************************)
EXTENDS TowerLayer

Ended == {"none", "served", "rejected", "closed", "failed", "dropped"}
FutureStates == Ended \cup {"calling", "made", "waiting", "dropping", "serving"}
Untold == {"none", "calling", "rejected", "closed"}   \* no task was accepted

\* The type of every variable, and what the phases imply: the worker has a task
\* exactly when it waits for or sends a permit, a permit lies only in a channel
\* somebody can read, and a future has its handle from the start.
TowerTypeInv ==
  /\ mode \in {"open", "drain", "immediate"}
  /\ job \in Seq({Job(r) : r \in Calls}) /\ overdue \subseteq DOMAIN job
  /\ status \in [Ids -> {"none", "queued", "delivered", "expired", "dropped", "cancelled"}]
  /\ inside = {r \in Calls : future[r] = "calling"}
  /\ future \in [Calls -> FutureStates]
  /\ handle \in [Calls -> 0 .. Len(job)]
  /\ sent \subseteq {r \in Calls : future[r] \in {"made", "waiting"}}
  /\ permits \in 0 .. Limit
  /\ worker \in {"look", "dequeue", "scan", "acquire", "send", "ended"}
  /\ owner \in {"live", "flagged", "shut", "joining", "gone"}
  /\ IF worker \in {"acquire", "send"} THEN hand \in DOMAIN job ELSE hand = 0
  /\ \A r \in Calls :
       future[r] \notin Untold => handle[r] \in DOMAIN job /\ job[handle[r]].call = r

Serving == {r \in Calls : future[r] = "serving"}

\* Every permit of the semaphore is free, in the worker's hand, in a channel or
\* with a running handler: none leaks when futures are dropped while the worker
\* sends, and no more than in_flight_limit handlers run (lib.rs 225-230, 379-383).
PermitsConserved ==
  /\ permits + Cardinality(sent) + Cardinality(Serving)
       + (IF worker = "send" THEN 1 ELSE 0) = Limit
  /\ Cardinality(Serving) <= Limit

\* What a caller is told agrees with what became of its task: the handler runs
\* only for a task the scheduler delivered, never for a cancelled, expired or
\* dropped one, and PermitError means that the task expired, was dropped by a
\* policy, or was let go by a worker the layer is stopping (lib.rs 226-229, 379).
OutcomeIsTrue ==
  \A r \in Calls :
    LET fate == status[handle[r]] IN
    /\ future[r] \in {"serving", "served"} => fate = "delivered"
    /\ future[r] = "failed" => \/ fate \in {"expired", "dropped"}
                               \/ fate = "delivered" /\ ~SemaphoreOpen

\* What makes these inductive: calls and accepted tasks correspond one to one, what
\* the worker holds and what it has sent was delivered, one after the other, and a
\* task delivered to a future that still waits was sent to it or let go after
\* in_flight was closed.
CallsLinked ==
  /\ DOMAIN job \subseteq Ids
  /\ \A x \in Ids : status[x] = "none" <=> x \notin DOMAIN job
  /\ \A x \in DOMAIN job :
       handle[job[x].call] = x /\ future[job[x].call] \notin Untold
  /\ hand # 0 => status[hand] = "delivered"
  /\ \A r \in sent : status[handle[r]] = "delivered" /\ handle[r] # hand
  /\ \A r \in Calls \ sent :
       Receiving(r) /\ status[handle[r]] = "delivered" /\ handle[r] # hand
         => ~SemaphoreOpen
TowerInv == TowerTypeInv /\ PermitsConserved /\ OutcomeIsTrue /\ CallsLinked

\* A waiting request whose task stays in a scheduler no worker empties.
Stranded(r) == worker = "ended" /\ handle[r] \in Queued /\ mode # "open"

\* Where handlers end, every request whose future is polled is answered: it
\* runs, fails or is dropped.  The exception is the code's: the worker stops at
\* Closed and leaves the senders of queued tasks where they are (lib.rs 232).
RequestsAnswered ==
  (\A r \in Calls : (future[r] = "serving") ~> (future[r] # "serving"))
    => \A r \in Calls :
         (future[r] = "waiting") ~> (future[r] # "waiting" \/ Stranded(r))

\* Once no request is under way for good, in_flight_active falls back to 0, and
\* the worker, while it runs, has cleared the queue of the requests that were
\* dropped before their first poll (lib.rs 266-270, 378).
Quiet == \A r \in Calls : future[r] \in Ended
AllReturned ==
  <>[]Quiet => <>[](InFlightActive = 0 /\ (Queued = {} \/ worker = "ended"))

\* BackgroundWorker::drop returns whatever the worker is doing and however long
\* handlers keep their permits (lib.rs 445-455).
DropReturns == (owner = "flagged") ~> (owner = "gone")
=============================================================================
