------------------------------ MODULE MCTickets ------------------------------
(* Small instances of Tickets for TLC. *)
EXTENDS TicketClocks, TLC

\* Targets in ticks.  LOW has no rule, so both branches of the due-date
\* computation are taken.
MCResponseTarget == [p \in Priority |-> IF p = "MEDIUM" THEN 2 ELSE 1]
MCResolutionTarget == [p \in Priority |-> IF p = "MEDIUM" THEN 3 ELSE 2]
MCRuled == {"MEDIUM", "HIGH", "URGENT"}

\* A schedule that is always open.
MCAddBusinessMinutes(from, minutes) == from + minutes

Symmetric == Permutations(Requests) \cup Permutations(Tickets)

=============================================================================
