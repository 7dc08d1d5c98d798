---------------------------- MODULE TicketClocks ----------------------------
(***************************************************************************)
(* Tickets implements two SlaClocks per ticket.  The refinement mapping    *)
(* reads the countdown off the stored columns: a due date in the future of *)
(* the wall clock, or of the pause timestamp while one is set.             *)
(***************************************************************************)
EXTENDS Tickets

Mode(t, due(_), metAt(_)) ==
  IF ~Exists(t) THEN "none"
  ELSE IF due(ticket[t]) = NULL THEN "none"
  ELSE IF metAt(ticket[t]) # NULL THEN "met"
  ELSE IF ticket[t].slaPausedAt # NULL THEN "paused"
  ELSE "running"

Left(t, due(_), metAt(_)) ==
  CASE Mode(t, due, metAt) = "running" -> due(ticket[t]) - now
    [] Mode(t, due, metAt) = "paused" -> due(ticket[t]) - ticket[t].slaPausedAt
    [] OTHER -> 0

ResponseDue(row) == row.responseDueAt
ResponseMet(row) == row.firstResponseAt
ResolutionDue(row) == row.resolutionDueAt
ResolutionMet(row) == row.resolvedAt

PriorityOf(t) == IF Exists(t) THEN ticket[t].priority ELSE "none"

Response == INSTANCE SlaClock WITH
  Reopens <- FALSE,
  mode <- [t \in Tickets |-> Mode(t, ResponseDue, ResponseMet)],
  left <- [t \in Tickets |-> Left(t, ResponseDue, ResponseMet)],
  priority <- [t \in Tickets |-> PriorityOf(t)]

Resolution == INSTANCE SlaClock WITH
  Reopens <- TRUE,
  mode <- [t \in Tickets |-> Mode(t, ResolutionDue, ResolutionMet)],
  left <- [t \in Tickets |-> Left(t, ResolutionDue, ResolutionMet)],
  priority <- [t \in Tickets |-> PriorityOf(t)]

\* One request at a time, the first-response column pair behaves as a clock:
\* pauses cost nothing and only a priority change moves the target.
ResponseClock == Response!Spec

\* One request at a time, so does the resolution column pair, which a reopen
\* may start again.
ResolutionClock == Resolution!Spec

\* Both: each of a ticket's two targets is a clock.
TargetsAreClocks == ResponseClock /\ ResolutionClock

=============================================================================
