------------------------------ MODULE SlaClock ------------------------------
(***************************************************************************)
(* What an SLA clock promises the team: a countdown per ticket that runs   *)
(* with the wall clock, stands still while the ticket is paused, and is    *)
(* otherwise touched only by a change of the ticket's priority.            *)
(*                                                                         *)
(* Tickets implements two of these, the response clock and the resolution  *)
(* clock, out of a due date and a pause timestamp.                         *)
(***************************************************************************)
EXTENDS Integers

CONSTANTS
  Tickets,
  Reopens      \* TRUE: a stopped clock may start again (resolution)

VARIABLES
  mode,        \* "none" before there is a target, then running, paused, met
  left,        \* ticks until the target is missed; 0 when none or met
  priority     \* the ticket's priority, "none" before it exists

clocks == <<mode, left, priority>>

Init ==
  /\ mode = [t \in Tickets |-> "none"]
  /\ left = [t \in Tickets |-> 0]
  /\ priority = [t \in Tickets |-> "none"]

\* The wall clock advances: every running countdown loses one tick.
Elapse ==
  /\ left' = [t \in Tickets |->
                IF mode[t] = "running" THEN left[t] - 1 ELSE left[t]]
  /\ UNCHANGED <<mode, priority>>

\* Everything of the other tickets is left alone.
Only(t) ==
  \A u \in Tickets \ {t} :
    mode'[u] = mode[u] /\ left'[u] = left[u] /\ priority'[u] = priority[u]

\* A countdown starts or is set anew only as the priority is set.
Prioritise(t) ==
  /\ Only(t)
  /\ priority'[t] # priority[t]
  /\ \/ mode'[t] \in {mode[t], "met"}
     \/ mode[t] = "none" /\ mode'[t] \in {"running", "paused"}

\* Stopping and restarting costs and earns nothing.
Toggle(t) ==
  /\ Only(t)
  /\ priority'[t] = priority[t]
  /\ \/ mode[t] = "running" /\ mode'[t] = "paused"
     \/ mode[t] = "paused" /\ mode'[t] = "running"
  /\ left'[t] = left[t]

Meet(t) ==
  /\ Only(t)
  /\ priority'[t] = priority[t]
  /\ mode[t] \in {"running", "paused"} /\ mode'[t] = "met"

Restart(t) ==
  /\ Reopens
  /\ Only(t)
  /\ priority'[t] = priority[t]
  /\ mode[t] = "met" /\ mode'[t] \in {"running", "paused"}

Next == Elapse \/ \E t \in Tickets :
                    Prioritise(t) \/ Toggle(t) \/ Meet(t) \/ Restart(t)

Spec == Init /\ [][Next]_clocks

=============================================================================
