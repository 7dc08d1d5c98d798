------------------------------ MODULE MCOutbox ------------------------------
(* Small instances of Outbox for TLC. *)
EXTENDS Outbox

\* Every webhook goes by the status.
MCWants == [w \in Webhooks |-> {"ticket.created", "ticket.status_changed"}]

=============================================================================
