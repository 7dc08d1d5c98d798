----------------------------- MODULE MCSlaSweep -----------------------------
(* Small instances of SlaSweep for TLC. *)
EXTENDS SlaSweep

\* One tick to answer and two to resolve; escalation half-way through.
MCResponseTarget == [p \in Priority |-> 1]
MCResolutionTarget == [p \in Priority |-> 2]
MCRuled == Priority
MCAddBusinessMinutes(from, minutes) == from + minutes

\* A ticket as an earlier request left it: filed, and parked or answered at once.
Parked(p) == Written(NewRow(p, TRUE), [PausePatch EXCEPT !.status = "PENDING"])
Answered(p) == Written(NewRow(p, TRUE), [Nothing EXCEPT !.firstResponseAt = now])
Log(actions) == [a \in Logged |-> IF a \in actions THEN 1 ELSE 0]

\* No ticket yet, or all parked, or all answered.
MCInit ==
  /\ SweepInit /\ now = 0 /\ request = [r \in Requests |-> At("idle")]
  /\ \/ Init
     \/ /\ ticket \in [Tickets -> {Parked(p) : p \in Priorities}]
        /\ history = [t \in Tickets |-> Log({"SLA_PAUSED"})]
     \/ /\ ticket \in [Tickets -> {Answered(p) : p \in Priorities}]
        /\ history = [t \in Tickets |-> Log({})]

MCFairSpec == MCInit /\ [][DeskNext]_allVars /\ Fairness

=============================================================================
