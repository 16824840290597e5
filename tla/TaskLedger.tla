----------------------------- MODULE TaskLedger -----------------------------
(***************************************************************************)
(* What firq-core promises its callers about tasks, whatever the threads,  *)
(* locks and rings behind it: a task is accepted into a free slot and      *)
(* settled exactly once; tasks of one tenant and priority are delivered in *)
(* the order they were accepted; only overdue tasks expire; and once the   *)
(* scheduler is closed no call is let in any more.                         *)
(***************************************************************************)
EXTENDS Naturals, FiniteSets, Sequences

CONSTANTS
  Ids,           \* the handles, 1 .. the number of tasks ever accepted
  Callers,       \* the threads that enqueue
  Requests,      \* what they ask for, with fields tenant, prio, deadline
  MaxGlobal,     \* tasks that may be queued at once
  MaxPerTenant   \* and of one tenant

VARIABLES mode, job, overdue, status, inside
ledger == <<mode, job, overdue, status, inside>>

Queued == {x \in Ids : status[x] = "queued"}
SameQueue(x, y) == job[x].tenant = job[y].tenant /\ job[x].prio = job[y].prio

Init ==
  /\ mode = "open"
  /\ job = <<>>
  /\ overdue = {}
  /\ inside = {}
  /\ status = [x \in Ids |-> "none"]

\* A call is let in while the scheduler is open ...
Admit(p) ==
  /\ mode = "open"
  /\ inside' = inside \cup {p}
  /\ UNCHANGED <<mode, job, overdue, status>>

\* ... and is refused, or has its task accepted into a free slot.
Refuse(p) ==
  /\ inside' = inside \ {p}
  /\ UNCHANGED <<mode, job, overdue, status>>

Accept(p, r) ==
  LET x == Len(job) + 1
  IN  /\ p \in inside
      /\ x \in Ids
      /\ Cardinality(Queued) < MaxGlobal
      /\ Cardinality({y \in Queued : job[y].tenant = r.tenant}) < MaxPerTenant
      /\ job' = Append(job, r)
      /\ status' = [status EXCEPT ![x] = "queued"]
      /\ inside' = inside \ {p}
      /\ UNCHANGED <<mode, overdue>>

Settle(S, outcome) ==
  /\ S # {} /\ S \subseteq Queued
  /\ status' = [x \in Ids |-> IF x \in S THEN outcome ELSE status[x]]
  /\ UNCHANGED <<mode, job, overdue>>

Deliver(x) ==
  /\ \A y \in Queued : SameQueue(x, y) => x <= y
  /\ Settle({x}, "delivered")
  /\ UNCHANGED inside

Cancel(x) == Settle({x}, "cancelled") /\ UNCHANGED inside

\* Expired tasks are removed in passing, also by a call being let in.
Expire(S) ==
  /\ S \subseteq overdue
  /\ Settle(S, "expired")
  /\ \/ UNCHANGED inside
     \/ \E p \in Callers : mode = "open" /\ inside' = inside \cup {p}

\* A call that finds no room drops the oldest or the newest of the tasks of one
\* tenant and priority; the ledger does not say which tenant and priority.
Drop(p, x) ==
  /\ p \in inside
  /\ \/ \A y \in Queued : SameQueue(x, y) => x <= y
     \/ \A y \in Queued : SameQueue(x, y) => y <= x
  /\ Settle({x}, "dropped")
  /\ UNCHANGED inside

Close(m) ==
  /\ \/ mode = "open" /\ m \in {"drain", "immediate"}
     \/ mode = "drain" /\ m = "immediate"
  /\ mode' = m
  /\ UNCHANGED <<job, overdue, status, inside>>

PassTime(x) ==
  /\ job[x].deadline
  /\ overdue' = overdue \cup {x}
  /\ UNCHANGED <<mode, job, status, inside>>

Next ==
  \/ \E p \in Callers : Admit(p) \/ Refuse(p)
  \/ \E p \in Callers, r \in Requests : Accept(p, r)
  \/ \E p \in Callers, x \in Queued : Drop(p, x)
  \/ \E x \in Queued : Deliver(x) \/ Cancel(x)
  \/ \E S \in SUBSET Queued : Expire(S)
  \/ \E m \in {"drain", "immediate"} : Close(m)
  \/ \E x \in DOMAIN job : PassTime(x)

Spec == Init /\ [][Next]_ledger
=============================================================================
