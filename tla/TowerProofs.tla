----------------------------- MODULE TowerProofs -----------------------------
(***************************************************************************)
(* TowerLayer for any number of calls and permits: the types, the          *)
(* accounting of the permits, and what callers are told.                   *)
(***************************************************************************)
EXTENDS TowerProps, FiniteSetTheorems, TLAPS

\* What a step of the scheduler changes: some queued tasks are settled.
Settles(S, outcome) ==
  /\ S \subseteq Queued
  /\ status' = [x \in Ids |-> IF x \in S THEN outcome ELSE status[x]]
  /\ UNCHANGED job

Outcomes == {"delivered", "expired", "dropped", "cancelled"}

LEMMA Handles ==
  ASSUME TowerInv
  PROVE  /\ job \in Seq({Job(r) : r \in Calls}) /\ Len(job) \in Nat
         /\ DOMAIN job = 1 .. Len(job) /\ DOMAIN job \subseteq Ids
         /\ \A x \in DOMAIN job : job[x].call \in Calls
         /\ \A x \in Queued : x \in Ids /\ x \in DOMAIN job /\ status[x] = "queued"
  <1>1. job \in Seq({Job(r) : r \in Calls})
    BY DEF TowerInv, TowerTypeInv
  <1>2. \A x \in DOMAIN job : job[x] \in {Job(r) : r \in Calls}
    BY <1>1
  <1>3. \A x \in DOMAIN job : job[x].call \in Calls
    BY <1>2 DEF Job
  <1>4. \A x \in Queued : x \in Ids /\ x \in DOMAIN job /\ status[x] = "queued"
    BY DEF Queued, Ledger!Queued, TowerInv, CallsLinked
  <1> QED
    BY <1>1, <1>3, <1>4 DEF TowerInv, CallsLinked

-----------------------------------------------------------------------------
(* Where a future goes when the scheduler stays put. *)

\* The scheduler, the handles and the worker stay; a future moves on, and its
\* permit with it.
Moves(r, s) ==
  /\ Becomes(r, s)
  /\ UNCHANGED <<mode, job, overdue, status, handle, worker, hand, owner>>
  /\ inside' = {q \in Calls : future'[q] = "calling"}

LEMMA FutureMoves ==
  ASSUME TowerInv, NEW r \in Calls, NEW s \in FutureStates, Moves(r, s),
         s # "made", future[r] = "made" \/ s # "waiting",
         future[r] \notin Untold => s \notin Untold,
         future[r] \in Untold => s \in Untold,
         s \in {"serving", "served"} => status[handle[r]] = "delivered",
         s = "failed" => \/ status[handle[r]] \in {"expired", "dropped"}
                         \/ status[handle[r]] = "delivered" /\ ~SemaphoreOpen,
         s = "waiting" => UNCHANGED sent, s # "waiting" => sent' = sent \ {r},
         permits' \in 0 .. Limit, PermitsConserved'
  PROVE  TowerInv'
  <1>1. \A q \in Calls : future'[q] = IF q = r THEN s ELSE future[q]
    BY DEF Moves, Becomes, TowerInv, TowerTypeInv
  <1>2. TowerTypeInv'
    BY <1>1 DEF Moves, Becomes, TowerInv, TowerTypeInv
  <1>3. OutcomeIsTrue'
    BY <1>1 DEF Moves, TowerInv, OutcomeIsTrue, SemaphoreOpen
  <1>4. CallsLinked'
    BY <1>1, Handles DEF Moves, TowerInv, CallsLinked, SemaphoreOpen, Receiving
  <1> QED
    BY <1>2, <1>3, <1>4 DEF TowerInv

-----------------------------------------------------------------------------
(* Permits. *)

Sending == IF worker = "send" THEN 1 ELSE 0

LEMMA Sizes ==
  ASSUME TowerInv
  PROVE  /\ IsFiniteSet(sent) /\ Cardinality(sent) \in Nat
         /\ IsFiniteSet(Serving) /\ Cardinality(Serving) \in Nat
         /\ Limit \in Nat \ {0} /\ permits \in Nat
  <1>1. sent \subseteq Calls /\ Serving \subseteq Calls /\ IsFiniteSet(Calls)
    BY TowerAssumption DEF TowerInv, TowerTypeInv, Serving
  <1>2. Limit \in Nat \ {0}
    BY TowerAssumption DEF Limit
  <1> QED
    BY <1>1, <1>2, FS_Subset, FS_CardinalityType DEF TowerInv, TowerTypeInv

\* A permit that goes from one place to another, or stays, is not lost.
LEMMA PermitMoves ==
  ASSUME TowerInv, IsFiniteSet(sent'), IsFiniteSet(Serving'),
         permits' \in Nat,
         permits' + Cardinality(sent') + Cardinality(Serving') + Sending'
           = permits + Cardinality(sent) + Cardinality(Serving) + Sending
  PROVE  PermitsConserved' /\ permits' \in 0 .. Limit
  <1>1. Cardinality(sent') \in Nat /\ Cardinality(Serving') \in Nat /\ Sending' \in Nat
    BY FS_CardinalityType DEF Sending
  <1>2. permits + Cardinality(sent) + Cardinality(Serving) + Sending = Limit
    BY DEF TowerInv, PermitsConserved, Sending
  <1>3. Limit' = Limit /\ Limit \in Nat
    BY Sizes DEF Limit
  <1>4. permits' + Cardinality(sent') + Cardinality(Serving') + Sending' = Limit
    BY <1>2
  <1>5. permits' \in 0 .. Limit /\ Cardinality(Serving') <= Limit
    BY <1>1, <1>3, <1>4
  <1>6. Cardinality(sent)' = Cardinality(sent') /\ Cardinality(Serving)' = Cardinality(Serving')
    OBVIOUS
  <1> QED
    BY <1>3, <1>4, <1>5, <1>6 DEF PermitsConserved, Sending

\* Nobody's permit moves.
LEMMA PermitsStay ==
  ASSUME TowerInv, UNCHANGED <<sent, permits>>, Serving' = Serving,
         worker' = "send" <=> worker = "send"
  PROVE  PermitsConserved' /\ permits' \in 0 .. Limit
  <1>1. Sending' = Sending
    BY DEF Sending
  <1> QED
    BY <1>1, Sizes, PermitMoves

\* A future gives its permit back.
LEMMA PermitReturns ==
  ASSUME TowerInv, NEW r \in Calls, NEW s \in FutureStates \ {"serving"}, Becomes(r, s),
         r \in sent \/ future[r] = "serving",
         permits' = permits + 1, sent' = sent \ {r}, worker' = worker
  PROVE  PermitsConserved' /\ permits' \in 0 .. Limit
  <1>1. Serving' = Serving \ {r}
    BY DEF Serving, Becomes, TowerInv, TowerTypeInv
  <1>2. Sending' = Sending /\ Sending \in Nat
    BY DEF Sending
  <1>3. ~(r \in sent /\ r \in Serving) /\ (r \in sent \/ r \in Serving)
    BY DEF TowerInv, TowerTypeInv, Serving
  <1>4. /\ Cardinality(sent') = IF r \in sent THEN Cardinality(sent) - 1 ELSE Cardinality(sent)
        /\ IsFiniteSet(sent')
    BY Sizes, FS_RemoveElement
  <1>5. /\ Cardinality(Serving')
             = IF r \in Serving THEN Cardinality(Serving) - 1 ELSE Cardinality(Serving)
        /\ IsFiniteSet(Serving')
    BY <1>1, Sizes, FS_RemoveElement
  <1>6. permits' + Cardinality(sent') + Cardinality(Serving') + Sending'
          = permits + Cardinality(sent) + Cardinality(Serving) + Sending
    BY <1>2, <1>3, <1>4, <1>5, Sizes
  <1>7. permits' \in Nat
    BY Sizes
  <1> QED
    BY <1>4, <1>5, <1>6, <1>7, PermitMoves

\* A future takes the permit out of its channel.
LEMMA PermitReceived ==
  ASSUME TowerInv, NEW r \in sent, Becomes(r, "serving"),
         permits' = permits, sent' = sent \ {r}, worker' = worker
  PROVE  PermitsConserved' /\ permits' \in 0 .. Limit
  <1>1. r \in Calls /\ r \notin Serving /\ Serving' = Serving \cup {r}
    BY DEF Serving, Becomes, TowerInv, TowerTypeInv
  <1>2. Sending' = Sending /\ Sending \in Nat
    BY DEF Sending
  <1>3. Cardinality(sent') = Cardinality(sent) - 1 /\ IsFiniteSet(sent')
    BY Sizes, FS_RemoveElement
  <1>4. Cardinality(Serving') = Cardinality(Serving) + 1 /\ IsFiniteSet(Serving')
    BY <1>1, Sizes, FS_AddElement
  <1>5. permits' + Cardinality(sent') + Cardinality(Serving') + Sending'
          = permits + Cardinality(sent) + Cardinality(Serving) + Sending
    BY <1>2, <1>3, <1>4, Sizes
  <1> QED
    BY <1>3, <1>4, <1>5, Sizes, PermitMoves

-----------------------------------------------------------------------------
(* The calls and their futures. *)

LEMMA StillServing ==
  ASSUME TowerInv, NEW r \in Calls, NEW s \in FutureStates \ {"serving"},
         Becomes(r, s), future[r] # "serving"
  PROVE  Serving' = Serving
  BY DEF Serving, Becomes, TowerInv, TowerTypeInv

LEMMA CallKeeps == ASSUME TowerInv, NEW r \in Calls, Call(r) PROVE TowerInv'
  <1>1. PICK s \in {"calling", "closed"} :
          /\ Becomes(r, s) /\ future[r] = "none" /\ (s = "closed" => UNCHANGED ledgerVars)
          /\ s = "calling" => Ledger!Admit(r)
          /\ UNCHANGED <<handle, sent, permits, worker, hand, owner>>
    BY Zenon DEF Call, layerVars
  <1>2. Moves(r, s)
    BY <1>1 DEF Moves, Becomes, ledgerVars, Ledger!Admit, TowerInv, TowerTypeInv
  <1>3. PermitsConserved' /\ permits' \in 0 .. Limit
    BY <1>1, StillServing, PermitsStay DEF FutureStates, Ended
  <1>4. r \notin sent
    BY <1>1 DEF TowerInv, TowerTypeInv
  <1> QED
    BY <1>1, <1>2, <1>3, <1>4, FutureMoves DEF FutureStates, Ended, Untold

LEMMA TurnDownKeeps == ASSUME TowerInv, NEW r \in Calls, TurnDown(r) PROVE TowerInv'
  <1>1. PICK s \in {"rejected", "closed"} :
          /\ Becomes(r, s) /\ future[r] = "calling" /\ Ledger!Refuse(r)
          /\ UNCHANGED <<handle, sent, permits, worker, hand, owner>>
    BY Zenon DEF TurnDown, layerVars
  <1>2. Moves(r, s)
    BY <1>1 DEF Moves, Becomes, Ledger!Refuse, TowerInv, TowerTypeInv
  <1>3. PermitsConserved' /\ permits' \in 0 .. Limit
    BY <1>1, StillServing, PermitsStay DEF FutureStates, Ended
  <1>4. r \notin sent
    BY <1>1 DEF TowerInv, TowerTypeInv
  <1> QED
    BY <1>1, <1>2, <1>3, <1>4, FutureMoves DEF FutureStates, Ended, Untold

\* A future that is polled, answered or dropped.
LEMMA FutureKeeps ==
  ASSUME TowerInv, NEW r \in Calls, Poll(r) \/ FinishInner(r) \/ DropFuture(r)
  PROVE  TowerInv'
  <1>1. ASSUME NEW s \in FutureStates, Becomes(r, s),
               UNCHANGED <<ledgerVars, handle, worker, hand, owner>>,
               s # "calling", future[r] # "calling"
        PROVE  Moves(r, s)
    BY <1>1 DEF Moves, Becomes, ledgerVars, TowerInv, TowerTypeInv
  <1>2. CASE FirstPoll(r)
    <2>1. Moves(r, "waiting")
      BY <1>1, <1>2 DEF FirstPoll, layerVars, FutureStates, Ended
    <2>2. PermitsConserved' /\ permits' \in 0 .. Limit
      BY <1>2, StillServing, PermitsStay DEF FirstPoll, layerVars, FutureStates, Ended
    <2> QED
      BY <1>2, <2>1, <2>2, FutureMoves DEF FirstPoll, layerVars, FutureStates, Ended, Untold
  <1>3. CASE StartInner(r)
    <2>1. Moves(r, "serving")
      BY <1>1, <1>3 DEF StartInner, layerVars, FutureStates, Ended
    <2>2. PermitsConserved' /\ permits' \in 0 .. Limit
      BY <1>3, PermitReceived DEF StartInner, layerVars
    <2>3. status[handle[r]] = "delivered"
      BY <1>3 DEF StartInner, TowerInv, CallsLinked
    <2> QED
      BY <1>3, <2>1, <2>2, <2>3, FutureMoves DEF StartInner, FutureStates, Ended, Untold
  <1>4. CASE PermitError(r)
    <2>1. Moves(r, "failed")
      BY <1>1, <1>4 DEF PermitError, layerVars, FutureStates, Ended
    <2>2. PermitsConserved' /\ permits' \in 0 .. Limit
      BY <1>4, StillServing, PermitsStay DEF PermitError, layerVars, FutureStates, Ended
    <2>3. \/ status[handle[r]] \in {"expired", "dropped"}
          \/ status[handle[r]] = "delivered" /\ ~SemaphoreOpen
      BY <1>4 DEF PermitError, SenderGone, Receiving, TowerInv, CallsLinked
    <2>4. r \notin sent
      BY <1>4, <2>3 DEF PermitError, SenderGone, TowerInv, CallsLinked
    <2> QED
      BY <1>4, <2>1, <2>2, <2>3, <2>4, FutureMoves DEF PermitError, FutureStates, Ended, Untold
  <1>5. CASE FinishInner(r)
    <2>1. Moves(r, "served")
      BY <1>1, <1>5 DEF FinishInner, FutureStates, Ended
    <2>2. r \notin sent
      BY <1>5 DEF FinishInner, TowerInv, TowerTypeInv
    <2>3. sent' = sent \ {r}
      BY <1>5, <2>2 DEF FinishInner
    <2>4. PermitsConserved' /\ permits' \in 0 .. Limit
      BY <1>5, <2>3, PermitReturns DEF FinishInner, FutureStates, Ended
    <2>5. status[handle[r]] = "delivered"
      BY <1>5 DEF FinishInner, TowerInv, OutcomeIsTrue
    <2> QED
      BY <1>5, <2>1, <2>3, <2>4, <2>5, FutureMoves DEF FinishInner, FutureStates, Ended, Untold
  <1>6. CASE DropFuture(r)
    <2>1. PICK s \in {"dropping", "dropped"} :
            s = (IF future[r] = "waiting" THEN "dropping" ELSE "dropped") /\ Becomes(r, s)
      BY <1>6 DEF DropFuture
    <2>2. Moves(r, s)
      BY <1>1, <1>6, <2>1 DEF DropFuture, FutureStates, Ended
    <2>3. PermitsConserved' /\ permits' \in 0 .. Limit
      <3>1. CASE r \in sent \/ future[r] = "serving"
        BY <1>6, <2>1, <3>1, PermitReturns DEF DropFuture, PermitsHeld, FutureStates, Ended
      <3>2. CASE ~(r \in sent \/ future[r] = "serving")
        <4>1. sent' = sent /\ permits' = permits
          BY <1>6, <3>2, Sizes DEF DropFuture, PermitsHeld
        <4> QED
          BY <1>6, <2>1, <3>2, <4>1, StillServing, PermitsStay DEF DropFuture, FutureStates, Ended
      <3> QED
        BY <3>1, <3>2
    <2> QED
      BY <1>6, <2>1, <2>2, <2>3, FutureMoves DEF DropFuture, FutureStates, Ended, Untold
  <1> QED
    BY <1>2, <1>3, <1>4, <1>5, <1>6 DEF Poll

-----------------------------------------------------------------------------
(* Tasks that are accepted, and tasks that leave the scheduler undelivered. *)

LEMMA EnqueueKeeps == ASSUME TowerInv, NEW r \in Calls, Enqueue(r) PROVE TowerInv'
  <1> DEFINE x == Len(job) + 1
  <1>1. /\ future[r] = "calling" /\ Becomes(r, "made") /\ x \in Ids
        /\ job' = Append(job, Job(r)) /\ handle' = [handle EXCEPT ![r] = Len(job')]
        /\ status' = [status EXCEPT ![x] = "queued"] /\ inside' = inside \ {r}
        /\ UNCHANGED <<mode, overdue, sent, permits, worker, hand, owner>>
    BY DEF Enqueue, Ledger!Accept, layerVars
  <1>2. /\ Len(job') = x /\ x \in Nat /\ DOMAIN job' = DOMAIN job \cup {x} /\ x \notin DOMAIN job
        /\ \A y \in DOMAIN job : job'[y] = job[y]
        /\ job'[x] = Job(r) /\ job' \in Seq({Job(q) : q \in Calls})
    <2>1. Job(r) \in {Job(q) : q \in Calls}
      OBVIOUS
    <2> QED
      BY <1>1, <2>1, Handles
  <1>3. /\ \A q \in Calls : future'[q] = IF q = r THEN "made" ELSE future[q]
        /\ \A q \in Calls : handle'[q] = IF q = r THEN x ELSE handle[q]
        /\ \A y \in Ids : status'[y] = IF y = x THEN "queued" ELSE status[y]
    BY <1>1, <1>2 DEF Becomes, TowerInv, TowerTypeInv
  <1>4. PermitsConserved' /\ permits' \in 0 .. Limit
    BY <1>1, StillServing, PermitsStay DEF FutureStates, Ended
  <1>5. TowerTypeInv'
    <2>1. handle' \in [Calls -> 0 .. Len(job')]
      BY <1>1, <1>2, Handles DEF TowerInv, TowerTypeInv
    <2>2. status' \in [Ids -> {"none", "queued", "delivered", "expired", "dropped", "cancelled"}]
      BY <1>1 DEF TowerInv, TowerTypeInv
    <2>3. future' \in [Calls -> FutureStates] /\ inside' = {q \in Calls : future'[q] = "calling"}
      BY <1>1, <1>3 DEF TowerInv, TowerTypeInv, FutureStates, Ended, Becomes
    <2>4. sent' \subseteq {q \in Calls : future'[q] \in {"made", "waiting"}}
      BY <1>1, <1>3 DEF TowerInv, TowerTypeInv
    <2>5. \A q \in Calls :
            future'[q] \notin Untold => handle'[q] \in DOMAIN job' /\ job'[handle'[q]].call = q
      BY <1>2, <1>3 DEF TowerInv, TowerTypeInv, Job
    <2>6. /\ mode' \in {"open", "drain", "immediate"} /\ overdue' \subseteq DOMAIN job'
          /\ worker' \in {"look", "dequeue", "scan", "acquire", "send", "ended"}
          /\ owner' \in {"live", "flagged", "shut", "joining", "gone"}
          /\ IF worker' \in {"acquire", "send"} THEN hand' \in DOMAIN job' ELSE hand' = 0
      BY <1>1, <1>2 DEF TowerInv, TowerTypeInv
    <2> QED
      BY <1>2, <1>4, <2>1, <2>2, <2>3, <2>4, <2>5, <2>6 DEF TowerTypeInv
  <1>6. \A q \in Calls : future[q] \notin Untold => handle[q] # x /\ handle[q] \in Ids
    BY <1>2, Handles DEF TowerInv, TowerTypeInv
  <1>7. OutcomeIsTrue'
    BY <1>1, <1>3, <1>6 DEF TowerInv, OutcomeIsTrue, SemaphoreOpen, Untold
  <1>8. CallsLinked'
    <2>1. DOMAIN job' \subseteq Ids /\ \A y \in Ids : status'[y] = "none" <=> y \notin DOMAIN job'
      BY <1>1, <1>2, <1>3 DEF TowerInv, CallsLinked
    <2>2. \A y \in DOMAIN job' : handle'[job'[y].call] = y /\ future'[job'[y].call] \notin Untold
      <3>1. \A y \in DOMAIN job : job[y].call # r
        BY <1>1 DEF TowerInv, CallsLinked, Untold
      <3>2. \A y \in DOMAIN job :
              handle'[job'[y].call] = y /\ future'[job'[y].call] \notin Untold
        BY <1>2, <1>3, <3>1, Handles DEF TowerInv, CallsLinked
      <3>3. handle'[job'[x].call] = x /\ future'[job'[x].call] \notin Untold
        BY <1>2, <1>3 DEF Job, Untold
      <3> QED
        BY <1>2, <3>2, <3>3
    <2>3. r \notin sent /\ \A q \in sent : q \in Calls /\ future[q] \notin Untold
      BY <1>1 DEF TowerInv, TowerTypeInv, Untold
    <2>4. \A q \in sent' : status'[handle'[q]] = "delivered" /\ handle'[q] # hand'
      BY <1>1, <1>3, <1>6, <2>3 DEF TowerInv, CallsLinked
    <2>5. hand' # 0 => status'[hand'] = "delivered"
      BY <1>1, <1>2, <1>3, Handles DEF TowerInv, TowerTypeInv, CallsLinked
    <2>6. \A q \in Calls \ sent' :
            (Receiving(q))' /\ status'[handle'[q]] = "delivered" /\ handle'[q] # hand'
              => ~SemaphoreOpen'
      BY <1>1, <1>3, <1>6 DEF TowerInv, CallsLinked, Receiving, SemaphoreOpen, Untold
    <2> QED
      BY <2>1, <2>2, <2>4, <2>5, <2>6 DEF CallsLinked
  <1> QED
    BY <1>4, <1>5, <1>7, <1>8 DEF TowerInv

\* Tasks go undelivered; at most a future that was being dropped moves on.
LEMMA SettledKeeps ==
  ASSUME TowerInv, NEW S, NEW outcome \in Outcomes \ {"delivered"}, Settles(S, outcome),
         UNCHANGED <<mode, overdue, inside, handle, sent, layerVars>>,
         \/ UNCHANGED future
         \/ \E r \in Calls : future[r] = "dropping" /\ Becomes(r, "dropped")
  PROVE  TowerInv'
  <1>1. /\ future' \in [Calls -> FutureStates]
        /\ \A q \in Calls : \/ future'[q] = future[q]
                            \/ future[q] = "dropping" /\ future'[q] = "dropped"
    BY DEF Becomes, TowerInv, TowerTypeInv, FutureStates, Ended
  <1>2. /\ S \subseteq Ids /\ status' \in [Ids -> {"none"} \cup {"queued"} \cup Outcomes]
        /\ \A x \in Ids : status'[x] = IF x \in S THEN outcome ELSE status[x]
        /\ \A x \in S : x \in DOMAIN job /\ status[x] = "queued"
    BY Handles DEF Settles, TowerInv, TowerTypeInv, Outcomes
  <1>3. Serving' = Serving
    BY <1>1 DEF Serving
  <1>4. PermitsConserved' /\ permits' \in 0 .. Limit
    BY <1>3, PermitsStay DEF layerVars
  <1>5. TowerTypeInv'
    <2>1. status' \in [Ids -> {"none", "queued", "delivered", "expired", "dropped", "cancelled"}]
      BY <1>2 DEF Outcomes
    <2>2. inside' = {q \in Calls : future'[q] = "calling"}
      BY <1>1 DEF TowerInv, TowerTypeInv
    <2>3. \A q \in Calls :
            future'[q] \notin Untold => handle'[q] \in DOMAIN job' /\ job'[handle'[q]].call = q
      BY <1>1 DEF TowerInv, TowerTypeInv, Settles, Untold
    <2>4. sent' \subseteq {q \in Calls : future'[q] \in {"made", "waiting"}}
      BY <1>1 DEF TowerInv, TowerTypeInv
    <2> QED
      BY <1>1, <1>4, <2>1, <2>2, <2>3, <2>4
         DEF TowerInv, TowerTypeInv, Settles, layerVars
  <1>6. \A q \in Calls : future[q] \notin Untold => handle[q] \in Ids
    BY Handles DEF TowerInv, TowerTypeInv
  <1>7. OutcomeIsTrue'
    BY <1>1, <1>2, <1>6
       DEF TowerInv, OutcomeIsTrue, SemaphoreOpen, layerVars, Untold, Outcomes
  <1>8. CallsLinked'
    <2>1. DOMAIN job' \subseteq Ids /\ \A y \in Ids : status'[y] = "none" <=> y \notin DOMAIN job'
      BY <1>2 DEF TowerInv, CallsLinked, Settles, Outcomes
    <2>2. \A y \in DOMAIN job' : handle'[job'[y].call] = y /\ future'[job'[y].call] \notin Untold
      BY <1>1, Handles DEF TowerInv, CallsLinked, Settles, Untold
    <2>3. \A q \in sent' : status'[handle'[q]] = "delivered" /\ handle'[q] # hand'
      <3> SUFFICES ASSUME NEW q \in sent PROVE status'[handle[q]] = "delivered" /\ handle[q] # hand
        BY DEF layerVars
      <3>1. q \in Calls /\ future[q] \notin Untold
        BY DEF TowerInv, TowerTypeInv, Untold
      <3>2. handle[q] \in Ids
        BY <1>6, <3>1
      <3>3. status[handle[q]] = "delivered" /\ handle[q] # hand
        BY DEF TowerInv, CallsLinked
      <3>4. handle[q] \notin S
        BY <1>2, <3>3
      <3> QED
        BY <1>2, <3>2, <3>3, <3>4
    <2>4. hand' # 0 => status'[hand'] = "delivered"
      BY <1>2, Handles DEF TowerInv, TowerTypeInv, CallsLinked, layerVars
    <2>5. \A q \in Calls \ sent' :
            (Receiving(q))' /\ status'[handle'[q]] = "delivered" /\ handle'[q] # hand'
              => ~SemaphoreOpen'
      BY <1>1, <1>2, <1>6
         DEF TowerInv, CallsLinked, Receiving, SemaphoreOpen, Untold, layerVars
    <2> QED
      BY <2>1, <2>2, <2>3, <2>4, <2>5 DEF CallsLinked
  <1> QED
    BY <1>4, <1>5, <1>7, <1>8 DEF TowerInv

LEMMA QueueKeeps ==
  ASSUME TowerInv,
         \/ \E r \in Calls : Replace(r) \/ CancelOnDrop(r)
         \/ \E x \in Queued : Expire(x)
  PROVE  TowerInv'
  <1>1. ASSUME NEW S, NEW outcome, Ledger!Settle(S, outcome)
        PROVE  Settles(S, outcome) /\ UNCHANGED <<mode, overdue>>
    BY <1>1 DEF Ledger!Settle, Settles, Queued
  <1>2. CASE \E r \in Calls : Replace(r)
    <2>1. PICK x : Ledger!Settle({x}, "dropped")
                   /\ UNCHANGED <<inside, handle, sent, future, layerVars>>
      BY <1>2 DEF Replace, Ledger!Drop, callVars
    <2> QED
      BY <1>1, <2>1, SettledKeeps DEF Outcomes
  <1>3. CASE \E x \in Queued : Expire(x)
    <2>1. PICK x : Ledger!Settle({x}, "expired")
                   /\ UNCHANGED <<inside, handle, sent, future, layerVars>>
      BY <1>3 DEF Expire, Ledger!Expire, callVars
    <2> QED
      BY <1>1, <2>1, SettledKeeps DEF Outcomes
  <1>4. ASSUME NEW r \in Calls, CancelOnDrop(r)
        PROVE  TowerInv'
    <2>1. future[r] = "dropping" /\ Becomes(r, "dropped") /\ UNCHANGED <<handle, sent, layerVars>>
      BY <1>4 DEF CancelOnDrop
    <2>2. CASE Ledger!Cancel(handle[r])
      <3>1. Settles({handle[r]}, "cancelled") /\ UNCHANGED <<mode, overdue, inside>>
        BY <1>1, <2>2 DEF Ledger!Cancel
      <3> QED
        BY <2>1, <3>1, SettledKeeps DEF Outcomes
    <2>3. CASE UNCHANGED ledgerVars
      <3>1. Settles({}, "cancelled") /\ UNCHANGED <<mode, overdue, inside>>
        BY <2>3 DEF Settles, ledgerVars, TowerInv, TowerTypeInv
      <3> QED
        BY <2>1, <3>1, SettledKeeps DEF Outcomes
    <2> QED
      BY <1>4, <2>2, <2>3 DEF CancelOnDrop
  <1> QED
    BY <1>2, <1>3, <1>4

-----------------------------------------------------------------------------
(* The worker, the layer's owner and the others who touch the scheduler. *)

\* A future whose call was accepted has a handle, and the handle a task.
LEMMA HandleOf ==
  ASSUME TowerInv, NEW r \in Calls, future[r] \notin Untold
  PROVE  handle[r] \in DOMAIN job /\ handle[r] \in Ids /\ handle[r] # 0 /\ job[handle[r]].call = r
  BY Handles DEF TowerInv, TowerTypeInv

\* The worker turns to its next phase with no task in hand, the owner goes on, the
\* scheduler is closed or a deadline passes.
LEMMA PhaseKeeps ==
  ASSUME TowerInv,
         UNCHANGED <<job, status, inside, callVars, permits, hand>>,
         mode' \in {"open", "drain", "immediate"}, overdue' \subseteq DOMAIN job,
         \/ UNCHANGED worker
         \/ /\ worker \in {"look", "dequeue", "scan"}
            /\ worker' \in {"look", "dequeue", "scan", "ended"},
         owner' \in {"live", "flagged", "shut", "joining", "gone"},
         SemaphoreOpen' => SemaphoreOpen
  PROVE  TowerInv'
  <1>1. Serving' = Serving
    BY DEF Serving, callVars
  <1>2. PermitsConserved' /\ permits' \in 0 .. Limit
    BY <1>1, PermitsStay DEF callVars
  <1>3. TowerTypeInv'
    BY <1>2 DEF TowerInv, TowerTypeInv, callVars
  <1>4. OutcomeIsTrue'
    BY DEF TowerInv, OutcomeIsTrue, callVars
  <1>5. CallsLinked'
    BY DEF TowerInv, CallsLinked, Receiving, callVars
  <1> QED
    BY <1>2, <1>3, <1>4, <1>5 DEF TowerInv

LEMMA OthersKeep ==
  ASSUME TowerInv,
         \/ Look \/ EnterTryDequeue \/ NothingLeft \/ SeeClosed
         \/ DropStep
         \/ \E m \in CloseModes : Close(m)
         \/ \E x \in DOMAIN job : PassTime(x)
         \/ UNCHANGED vars
  PROVE  TowerInv'
  <1> USE DEF SemaphoreOpen, ledgerVars, layerVars, callVars
  <1>1. /\ mode \in {"open", "drain", "immediate"} /\ overdue \subseteq DOMAIN job
        /\ owner \in {"live", "flagged", "shut", "joining", "gone"}
    BY DEF TowerInv, TowerTypeInv
  <1>2. CASE Look \/ EnterTryDequeue \/ NothingLeft \/ SeeClosed
    BY <1>1, <1>2, PhaseKeeps DEF Look, EnterTryDequeue, NothingLeft, SeeClosed, WorkerGoes
  <1>3. CASE DropStep
    BY <1>1, <1>3, PhaseKeeps
       DEF DropStep, SetShutdown, CloseSemaphore, CloseScheduler, Join, OwnerGoes, Ledger!Close
  <1>4. CASE \E m \in CloseModes : Close(m)
    BY <1>1, <1>4, PhaseKeeps DEF Close, Ledger!Close
  <1>5. CASE \E x \in DOMAIN job : PassTime(x)
    BY <1>1, <1>5, PhaseKeeps DEF PassTime, Ledger!PassTime
  <1>6. CASE UNCHANGED vars
    BY <1>1, <1>6, PhaseKeeps DEF vars
  <1> QED
    BY <1>2, <1>3, <1>4, <1>5, <1>6

\* The worker takes a task.
LEMMA TakeKeeps == ASSUME TowerInv, NEW x \in Queued, Take(x) PROVE TowerInv'
  <1>1. /\ worker = "scan" /\ worker' = "acquire" /\ hand' = x
        /\ status' = [y \in Ids |-> IF y \in {x} THEN "delivered" ELSE status[y]]
        /\ UNCHANGED <<mode, job, overdue, inside, future, handle, sent, permits, owner>>
    BY DEF Take, WorkerGoes, callVars, Ledger!Deliver, Ledger!Settle
  <1>2. /\ hand = 0 /\ x \in DOMAIN job /\ x \in Ids /\ x # 0 /\ status[x] = "queued"
        /\ \A y \in Ids : status'[y] = IF y = x THEN "delivered" ELSE status[y]
    BY <1>1, Handles DEF TowerInv, TowerTypeInv
  <1>3. Serving' = Serving
    BY <1>1 DEF Serving
  <1>4. PermitsConserved' /\ permits' \in 0 .. Limit
    BY <1>1, <1>3, PermitsStay
  <1>5. TowerTypeInv'
    <2>1. status' \in [Ids -> {"none", "queued", "delivered", "expired", "dropped", "cancelled"}]
      BY <1>1 DEF TowerInv, TowerTypeInv
    <2> QED
      BY <1>1, <1>2, <1>4, <2>1 DEF TowerInv, TowerTypeInv
  <1>6. \A q \in Calls : future[q] \notin Untold => handle[q] \in Ids /\ handle[q] # 0
    BY HandleOf
  <1>7. OutcomeIsTrue'
    BY <1>1, <1>2, <1>6 DEF TowerInv, OutcomeIsTrue, SemaphoreOpen, Untold
  <1>8. CallsLinked'
    <2>1. \A q \in sent : q \in Calls /\ future[q] \notin Untold
      BY DEF TowerInv, TowerTypeInv, Untold
    <2>2. \A q \in sent' : status'[handle'[q]] = "delivered" /\ handle'[q] # hand'
      BY <1>1, <1>2, <1>6, <2>1 DEF TowerInv, CallsLinked
    <2>3. \A q \in Calls \ sent' :
            (Receiving(q))' /\ status'[handle'[q]] = "delivered" /\ handle'[q] # hand'
              => ~SemaphoreOpen'
      BY <1>1, <1>2, <1>6 DEF TowerInv, CallsLinked, Receiving, SemaphoreOpen, Untold
    <2>4. DOMAIN job' \subseteq Ids /\ \A y \in Ids : status'[y] = "none" <=> y \notin DOMAIN job'
      BY <1>1, <1>2 DEF TowerInv, CallsLinked
    <2>5. \A y \in DOMAIN job' : handle'[job'[y].call] = y /\ future'[job'[y].call] \notin Untold
      BY <1>1 DEF TowerInv, CallsLinked
    <2>6. hand' # 0 => status'[hand'] = "delivered"
      BY <1>1, <1>2
    <2> QED
      BY <2>2, <2>3, <2>4, <2>5, <2>6 DEF CallsLinked
  <1> QED
    BY <1>4, <1>5, <1>7, <1>8 DEF TowerInv

\* The worker gets a permit for it.
LEMMA AcquireKeeps == ASSUME TowerInv, Acquire PROVE TowerInv'
  <1>1. /\ worker = "acquire" /\ worker' = "send" /\ permits > 0 /\ permits' = permits - 1
        /\ UNCHANGED <<mode, job, overdue, status, inside, future, handle, sent, hand, owner>>
    BY DEF Acquire, ledgerVars, callVars
  <1>2. Serving' = Serving /\ Sending = 0 /\ Sending' = 1
    BY <1>1 DEF Serving, Sending
  <1>3. permits' \in Nat
    BY <1>1, Sizes
  <1>4. permits' + Cardinality(sent') + Cardinality(Serving') + Sending'
          = permits + Cardinality(sent) + Cardinality(Serving) + Sending
    BY <1>1, <1>2, Sizes
  <1>5. PermitsConserved' /\ permits' \in 0 .. Limit
    BY <1>1, <1>2, <1>3, <1>4, Sizes, PermitMoves
  <1> QED
    BY <1>1, <1>5
       DEF TowerInv, TowerTypeInv, OutcomeIsTrue, CallsLinked, Receiving, SemaphoreOpen

\* The worker stops, and lets the task it holds go.
LEMMA GiveUpKeeps == ASSUME TowerInv, GiveUp PROVE TowerInv'
  <1>1. /\ worker = "acquire" /\ worker' = "ended" /\ hand' = 0 /\ ~SemaphoreOpen
        /\ UNCHANGED <<mode, job, overdue, status, inside, future, handle, sent, permits, owner>>
    BY DEF GiveUp, AcquireFails, WorkerGoes, ledgerVars, callVars
  <1>2. Serving' = Serving
    BY <1>1 DEF Serving
  <1>3. PermitsConserved' /\ permits' \in 0 .. Limit
    BY <1>1, <1>2, PermitsStay
  <1>4. TowerTypeInv' /\ OutcomeIsTrue'
    BY <1>1, <1>3 DEF TowerInv, TowerTypeInv, OutcomeIsTrue, SemaphoreOpen
  <1>5. \A q \in sent : handle[q] # 0
    BY HandleOf DEF TowerInv, TowerTypeInv, Untold
  <1>6. CallsLinked'
    BY <1>1, <1>5 DEF TowerInv, CallsLinked, SemaphoreOpen
  <1> QED
    BY <1>3, <1>4, <1>6 DEF TowerInv

\* The worker sends the permit, or gets it back.
LEMMA SendKeeps == ASSUME TowerInv, Send PROVE TowerInv'
  <1> DEFINE r == job[hand].call
  <1>1. /\ worker = "send" /\ worker' = "look" /\ hand' = 0
        /\ IF Receiving(r) THEN sent' = sent \cup {r} /\ UNCHANGED permits
           ELSE permits' = permits + 1 /\ UNCHANGED sent
        /\ UNCHANGED <<mode, job, overdue, status, inside, future, handle, owner>>
    BY DEF Send, AfterSend, ledgerVars
  <1>2. /\ hand \in DOMAIN job /\ hand # 0 /\ r \in Calls /\ handle[r] = hand
        /\ status[hand] = "delivered" /\ r \notin sent
    BY <1>1, Handles DEF TowerInv, TowerTypeInv, CallsLinked
  <1>3. Serving' = Serving /\ Sending = 1 /\ Sending' = 0
    BY <1>1 DEF Serving, Sending
  <1>4. /\ IsFiniteSet(sent') /\ permits' \in Nat
        /\ permits' + Cardinality(sent') = permits + Cardinality(sent) + 1
    <2>1. CASE Receiving(r)
      <3>1. IsFiniteSet(sent') /\ Cardinality(sent') = Cardinality(sent) + 1
        <4>1. sent' = sent \cup {r} /\ r \notin sent /\ IsFiniteSet(sent)
          BY <1>1, <1>2, <2>1, Sizes
        <4> HIDE DEF r
        <4> QED
          BY <4>1, FS_AddElement
      <3> QED
        BY <1>1, <2>1, <3>1, Sizes
    <2>2. CASE ~Receiving(r)
      BY <1>1, <2>2, Sizes
    <2> QED
      BY <2>1, <2>2
  <1>5. permits' + Cardinality(sent') + Cardinality(Serving') + Sending'
          = permits + Cardinality(sent) + Cardinality(Serving) + Sending
    <2>1. Cardinality(sent') \in Nat
      BY <1>4, FS_CardinalityType
    <2> QED
      BY <1>3, <1>4, <2>1, Sizes
  <1>6. PermitsConserved' /\ permits' \in 0 .. Limit
    BY <1>3, <1>4, <1>5, Sizes, PermitMoves
  <1>7. TowerTypeInv' /\ OutcomeIsTrue'
    BY <1>1, <1>2, <1>6 DEF TowerInv, TowerTypeInv, OutcomeIsTrue, SemaphoreOpen, Receiving
  <1>8. CallsLinked'
    <2>1. \A q \in Calls : future[q] \notin Untold =>
            handle[q] # 0 /\ job[handle[q]].call = q
      BY HandleOf
    <2>2. \A q \in sent' : status'[handle'[q]] = "delivered" /\ handle'[q] # hand'
      <3>1. ASSUME NEW q \in sent'
            PROVE  status[handle[q]] = "delivered" /\ handle[q] # 0
        <4>1. CASE q = r
          BY <1>2, <4>1
        <4>2. CASE q \in sent
          BY <2>1, <4>2 DEF TowerInv, TowerTypeInv, CallsLinked, Untold
        <4> QED
          BY <1>1, <3>1, <4>1, <4>2
      <3> QED
        BY <1>1, <3>1
    <2>3. \A q \in Calls \ sent' :
            (Receiving(q))' /\ status'[handle'[q]] = "delivered" /\ handle'[q] # hand'
              => ~SemaphoreOpen'
      BY <1>1, <2>1 DEF TowerInv, CallsLinked, Receiving, SemaphoreOpen, Untold
    <2>4. /\ DOMAIN job' \subseteq Ids /\ \A y \in Ids : status'[y] = "none" <=> y \notin DOMAIN job'
          /\ \A y \in DOMAIN job' : handle'[job'[y].call] = y /\ future'[job'[y].call] \notin Untold
      BY <1>1 DEF TowerInv, CallsLinked
    <2> QED
      BY <1>1, <2>2, <2>3, <2>4 DEF CallsLinked
  <1> QED
    BY <1>6, <1>7, <1>8 DEF TowerInv

-----------------------------------------------------------------------------
LEMMA InitTower == Init => TowerInv
  <1> SUFFICES ASSUME Init PROVE TowerInv
    OBVIOUS
  <1>1. Limit \in Nat \ {0} /\ permits = Limit
    BY TowerAssumption DEF Init, Limit
  <1>2. sent = {} /\ Serving = {} /\ worker = "look"
    BY DEF Init, Serving
  <1>3. PermitsConserved
    BY <1>1, <1>2, FS_EmptySet DEF PermitsConserved
  <1>4. job = <<>> /\ DOMAIN job = {} /\ Len(job) = 0 /\ job \in Seq({Job(r) : r \in Calls})
    BY DEF Init, Ledger!Init
  <1>5. TowerTypeInv
    BY <1>1, <1>4 DEF Init, Ledger!Init, TowerTypeInv, FutureStates, Ended, Untold
  <1>6. OutcomeIsTrue /\ CallsLinked
    BY <1>4 DEF Init, Ledger!Init, OutcomeIsTrue, CallsLinked, Receiving
  <1> QED
    BY <1>3, <1>5, <1>6 DEF TowerInv

\* Types, permits, outcomes and the links between calls and tasks hold in every
\* state: FirqService::call, the worker, dropped futures and layers, for any limits.
THEOREM TowerInvariant == Spec => []TowerInv
  <1>1. TowerInv /\ [Next]_vars => TowerInv'
    <2> SUFFICES ASSUME TowerInv, [Next]_vars
                 PROVE  TowerInv'
      OBVIOUS
    <2>1. CASE \E r \in Calls : Call(r) \/ Enqueue(r) \/ TurnDown(r)
      BY <2>1, CallKeeps, EnqueueKeeps, TurnDownKeeps
    <2>2. CASE \E r \in Calls : Poll(r) \/ FinishInner(r) \/ DropFuture(r)
      BY <2>2, FutureKeeps
    <2>3. CASE \/ \E r \in Calls : Replace(r) \/ CancelOnDrop(r)
               \/ \E x \in Queued : Expire(x)
      BY <2>3, QueueKeeps
    <2>4. CASE \E x \in Queued : Take(x)
      BY <2>4, TakeKeeps
    <2>5. CASE Acquire \/ GiveUp \/ Send
      BY <2>5, AcquireKeeps, GiveUpKeeps, SendKeeps
    <2>6. CASE \/ Look \/ EnterTryDequeue \/ NothingLeft \/ SeeClosed
               \/ DropStep
               \/ \E m \in CloseModes : Close(m)
               \/ \E x \in DOMAIN job : PassTime(x)
               \/ UNCHANGED vars
      BY <2>6, OthersKeep
    <2> QED
      BY <2>1, <2>2, <2>3, <2>4, <2>5, <2>6 DEF Next, WorkerStep
  <1> QED
    BY <1>1, InitTower, PTL DEF Spec

\* Every variable of the layer keeps its type, and phases what they imply.
THEOREM TowerTypeCorrect == Spec => []TowerTypeInv
  <1>1. TowerInv => TowerTypeInv
    BY DEF TowerInv
  <1> QED
    BY <1>1, TowerInvariant, PTL

\* No permit of in_flight is lost or made up, and at most as many handlers run as
\* with_in_flight_limit says, whatever is dropped and whenever.
THEOREM PermitsAlwaysConserved == Spec => []PermitsConserved
  <1>1. TowerInv => PermitsConserved
    BY DEF TowerInv
  <1> QED
    BY <1>1, TowerInvariant, PTL

\* What a caller is told agrees with what became of its task.
THEOREM OutcomesTrue == Spec => []OutcomeIsTrue
  <1>1. TowerInv => OutcomeIsTrue
    BY DEF TowerInv
  <1> QED
    BY <1>1, TowerInvariant, PTL

-----------------------------------------------------------------------------
(* What the layer asks of the scheduler. *)

LEMMA TowerStepOfLedger == ASSUME [Next]_vars PROVE [Ledger!Next]_Ledger!ledger
  <1>1. UNCHANGED ledgerVars => UNCHANGED Ledger!ledger
    BY DEF ledgerVars, Ledger!ledger
  <1>2. ASSUME NEW r \in Calls, Call(r) \/ Replace(r) \/ Enqueue(r) \/ TurnDown(r)
        PROVE  Ledger!Next \/ UNCHANGED ledgerVars
    <2>1. Call(r) => Ledger!Admit(r) \/ UNCHANGED ledgerVars
      BY DEF Call
    <2>2. Replace(r) => \E x \in Ledger!Queued : Ledger!Drop(r, x)
      BY DEF Replace, Queued
    <2>3. Enqueue(r) => Ledger!Accept(r, Job(r)) /\ Job(r) \in {Job(q) : q \in Calls}
      BY DEF Enqueue
    <2>4. TurnDown(r) => Ledger!Refuse(r)
      BY DEF TurnDown
    <2> QED
      BY <1>2, <2>1, <2>2, <2>3, <2>4, Zenon DEF Ledger!Next
  <1>3. ASSUME NEW r \in Calls, Poll(r) \/ FinishInner(r) \/ DropFuture(r) \/ CancelOnDrop(r)
        PROVE  Ledger!Next \/ UNCHANGED ledgerVars
    <2>1. Poll(r) \/ FinishInner(r) \/ DropFuture(r) => UNCHANGED ledgerVars
      BY DEF Poll, FirstPoll, StartInner, PermitError, FinishInner, DropFuture
    <2>2. CancelOnDrop(r) => \/ UNCHANGED ledgerVars
                             \/ \E x \in Ledger!Queued : Ledger!Cancel(x)
      BY DEF CancelOnDrop, Queued
    <2> QED
      BY <1>3, <2>1, <2>2, Zenon DEF Ledger!Next
  <1>4. ASSUME WorkerStep
        PROVE  Ledger!Next \/ UNCHANGED ledgerVars
    <2>1. Look \/ EnterTryDequeue \/ NothingLeft \/ SeeClosed \/ Acquire \/ GiveUp \/ Send
            => UNCHANGED ledgerVars
      BY DEF Look, EnterTryDequeue, NothingLeft, SeeClosed, Acquire, GiveUp, Send
    <2>2. (\E x \in Queued : Take(x)) => \E x \in Ledger!Queued : Ledger!Deliver(x)
      BY DEF Take, Queued
    <2> QED
      BY <1>4, <2>1, <2>2, Zenon DEF WorkerStep, Ledger!Next
  <1>5. ASSUME DropStep \/ \E m \in CloseModes : Close(m)
        PROVE  Ledger!Next \/ UNCHANGED ledgerVars
    <2>1. DropStep => Ledger!Close("immediate") \/ UNCHANGED ledgerVars
      BY DEF DropStep, SetShutdown, CloseSemaphore, CloseScheduler, Join
    <2>2. \A m \in CloseModes : m \in {"drain", "immediate"} /\ (Close(m) => Ledger!Close(m))
      BY TowerAssumption DEF Close
    <2> QED
      BY <1>5, <2>1, <2>2 DEF Ledger!Next
  <1>6. ASSUME \/ \E x \in DOMAIN job : PassTime(x)
               \/ \E x \in Queued : Expire(x)
        PROVE  Ledger!Next
    <2>1. (\E x \in DOMAIN job : PassTime(x)) => \E x \in DOMAIN job : Ledger!PassTime(x)
      BY DEF PassTime
    <2>2. (\E x \in Queued : Expire(x)) => \E S \in SUBSET Ledger!Queued : Ledger!Expire(S)
      BY DEF Expire, Queued
    <2> QED
      BY <1>6, <2>1, <2>2, Zenon DEF Ledger!Next
  <1> QED
    BY <1>1, <1>2, <1>3, <1>4, <1>5, <1>6 DEF Next, vars

\* Whatever the futures, the worker and the owner of the layer do, the scheduler
\* sees a behaviour that TaskLedger allows: calls enter, tasks are accepted into
\* free slots, settled once, and delivered in order.
THEOREM TowerUsesLedger == Spec => Ledger!Spec
  <1>1. Init => Ledger!Init
    BY DEF Init
  <1> QED
    BY <1>1, TowerStepOfLedger, PTL DEF Spec, Ledger!Spec
=============================================================================
