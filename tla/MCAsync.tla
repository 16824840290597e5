------------------------------- MODULE MCAsync -------------------------------
(* Instances of AsyncConsumers for TLC. *)
EXTENDS AsyncProps

OneTenantJobs == {[tenant |-> 0, prio |-> 1, deadline |-> FALSE]}
SomeApps == {{"receiver"}, {"stream", "dispatcher"}}
=============================================================================
