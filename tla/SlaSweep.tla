------------------------------- MODULE SlaSweep -------------------------------
(***************************************************************************)
(* The breach sweep (sla/sla-breach-check.service.ts) beside the requests  *)
(* of Tickets.  Each minute cron fires sweep(), which runs three checks in *)
(* parallel.  A check queries its candidates once and then takes them one  *)
(* by one: a transaction that flags the row, then the mail and the         *)
(* notification.  An exception ends that check only; the other two go on.  *)
(* Nothing stops a slow sweep from overlapping with the next one: each     *)
(* member of Sweeps is a sweep that may be under way at the same time.     *)
(***************************************************************************)
EXTENDS Tickets

CONSTANTS
  Sweeps,           \* how many sweeps may be under way at once
  EscalateAt        \* SlaPolicy.autoEscalateAtPercent

ASSUME SweepAssumption == EscalateAt \in Nat

VARIABLES
  fired,            \* the minute cron last fired, -1 before the first
  check,            \* per sweep and check: how far it has got
  mail              \* the sla-notifications queue: jobs per ticket and check

sweepVars == <<fired, check, mail>>
allVars == <<vars, sweepVars>>

Checks == {"response", "resolution", "escalation"}
Candidate == [ticket : Tickets, priority : Priority]
Nobody == [ticket |-> NULL, priority |-> NULL]

\* found: the candidates still to be taken; on: the one being announced.
CheckState == [pc : {"idle", "query", "loop", "notify"}, at : 0..MaxNow,
               found : SUBSET Candidate, on : Nullable(Tickets)]

Idle == [pc |-> "idle", at |-> 0, found |-> {}, on |-> NULL]

LogOf(k) == CASE k = "response" -> "RESPONSE_SLA_BREACHED"
              [] k = "resolution" -> "RESOLUTION_SLA_BREACHED"
              [] k = "escalation" -> "AUTO_ESCALATED"

\* NEXT_PRIORITY
Raised(p) == CASE p = "LOW" -> "MEDIUM"
               [] p = "MEDIUM" -> "HIGH"
               [] p \in {"HIGH", "URGENT"} -> "URGENT"

-----------------------------------------------------------------------------
(* Who is a candidate, from the row and the instant the sweep started at *)

\* Mutant: a ticket that was flagged before is taken again.
ResponseMissedAgain(row, at) ==
  /\ row.responseDueAt # NULL /\ row.responseDueAt < at
  /\ row.firstResponseAt = NULL
  /\ row.slaPausedAt = NULL
  /\ row.status # "CLOSED"

\* Mutant: due now counts as missed.
ResponseMissedEarly(row, at) ==
  /\ row.responseDueAt # NULL /\ row.responseDueAt <= at
  /\ row.firstResponseAt = NULL
  /\ ~row.responseBreached
  /\ row.slaPausedAt = NULL
  /\ row.status # "CLOSED"

ResponseMissed(row, at) ==
  /\ row.responseDueAt # NULL /\ row.responseDueAt < at
  /\ row.firstResponseAt = NULL
  /\ ~row.responseBreached
  /\ row.slaPausedAt = NULL
  /\ row.status # "CLOSED"

ResolutionMissed(row, at) ==
  /\ row.resolutionDueAt # NULL /\ row.resolutionDueAt < at
  /\ row.resolvedAt = NULL
  /\ ~row.resolutionBreached
  /\ row.slaPausedAt = NULL
  /\ row.status \notin Finished

\* The share of the resolution window that has passed, in wall-clock time.
WindowBurnt(row, at) ==
  LET window == row.resolutionDueAt - row.createdAt
  IN window > 0 /\ (at - row.createdAt) * 100 >= EscalateAt * window

EscalationDue(row, at) ==
  /\ row.resolvedAt = NULL /\ row.slaEscalatedAt = NULL
  /\ row.slaPausedAt = NULL
  /\ row.resolutionDueAt # NULL
  /\ row.status \notin Finished
  /\ row.priority # "URGENT"
  /\ row.hasPolicy
  /\ WindowBurnt(row, at)

\* Mutant: only OPEN tickets are looked at.
SelectedIfOpen(k, row, at) ==
  /\ row.status = "OPEN"
  /\ CASE k = "response" -> ResponseMissed(row, at)
       [] k = "resolution" -> ResolutionMissed(row, at)
       [] k = "escalation" -> EscalationDue(row, at)

Selected(k, row, at) ==
  CASE k = "response" -> ResponseMissed(row, at)
    [] k = "resolution" -> ResolutionMissed(row, at)
    [] k = "escalation" -> EscalationDue(row, at)

\* What the check writes; the new priority comes from the snapshot.
Flagged(k, row, c, at) ==
  CASE k = "response" -> [row EXCEPT !.responseBreached = TRUE]
    [] k = "resolution" -> [row EXCEPT !.resolutionBreached = TRUE]
    [] k = "escalation" -> [row EXCEPT !.priority = Raised(c.priority),
                                       !.slaEscalatedAt = at]

-----------------------------------------------------------------------------
(* The sweep *)

\* Mutant: the sweep runs as of the end of its minute.
FireAhead(s) ==
  /\ fired < now \/ now = MaxNow
  /\ \A k \in Checks : check[s][k].pc = "idle"
  /\ fired' = now
  /\ check' = [check EXCEPT ![s] =
       [k \in Checks |-> [Idle EXCEPT !.pc = "query", !.at = now + 1]]]
  /\ UNCHANGED <<vars, mail>>

\* Cron fires once a minute.  At the bound of the clock it keeps firing.
Fire(s) ==
  /\ fired < now \/ now = MaxNow
  /\ \A k \in Checks : check[s][k].pc = "idle"
  /\ fired' = now
  /\ check' = [check EXCEPT ![s] =
       [k \in Checks |-> [Idle EXCEPT !.pc = "query", !.at = now]]]
  /\ UNCHANGED <<vars, mail>>

\* The next candidate, or the end of the check.
Remaining(c, found) ==
  IF found = {} THEN Idle ELSE [c EXCEPT !.pc = "loop", !.found = found,
                                         !.on = NULL]

Query(s, k) ==
  LET c == check[s][k]
      chosen == {t \in Tickets : Exists(t) /\ Selected(k, ticket[t], c.at)}
      found == {[ticket |-> t, priority |-> ticket[t].priority] : t \in chosen}
  IN /\ c.pc = "query"
     /\ check' = [check EXCEPT ![s][k] = Remaining(c, found)]
     /\ UNCHANGED <<vars, fired, mail>>

\* One transaction: the flag and its history row.
Flag(s, k, c) ==
  LET t == c.ticket
      me == check[s][k]
  IN /\ me.pc = "loop"
     /\ c \in me.found
     /\ ticket' = [ticket EXCEPT ![t] = Flagged(k, @, c, me.at)]
     /\ history' = [history EXCEPT ![t][LogOf(k)] = @ + 1]
     /\ check' = [check EXCEPT ![s][k].pc = "notify",
                               ![s][k].found = @ \ {c},
                               ![s][k].on = t]
     /\ UNCHANGED <<now, request, fired, mail>>

\* Mutant: the job is queued again and again.
NotifyRepeated(s, k) ==
  LET me == check[s][k]
  IN /\ me.pc = "notify"
     /\ mail' = [mail EXCEPT ![me.on][k] = @ + 1]
     /\ UNCHANGED <<vars, fired, check>>

\* emailQueue.add, then the in-app notification.
Notify(s, k) ==
  LET me == check[s][k]
  IN /\ me.pc = "notify"
     /\ mail' = [mail EXCEPT ![me.on][k] = @ + 1]
     /\ check' = [check EXCEPT ![s][k] = Remaining(me, me.found)]
     /\ UNCHANGED <<vars, fired>>

\* An exception, or a restart: the rest waits for a later sweep.
Break(s, k) ==
  /\ check[s][k].pc # "idle"
  /\ check' = [check EXCEPT ![s][k] = Idle]
  /\ UNCHANGED <<vars, fired, mail>>

SweepInit ==
  /\ fired = -1
  /\ check = [s \in Sweeps |-> [k \in Checks |-> Idle]]
  /\ mail = [t \in Tickets |-> [k \in Checks |-> 0]]

SweepNext ==
  \E s \in Sweeps :
    \/ Fire(s)
    \/ \E k \in Checks : \/ Query(s, k)
                         \/ \E c \in Candidate : Flag(s, k, c)
                         \/ Notify(s, k)
                         \/ Break(s, k)

DeskInit == Init /\ SweepInit
DeskNext == \/ Next /\ UNCHANGED sweepVars
            \/ SweepNext

DeskSpec == DeskInit /\ [][DeskNext]_allVars

\* Time passes, a handler that is under way ends, and cron fires as long as
\* the process lives.  A query or a transaction may fail any number of times
\* but not for ever: "it just tries again next minute".
Fairness ==
  /\ WF_allVars(Tick /\ UNCHANGED sweepVars)
  /\ \A r \in Requests :
       WF_allVars((Advance(r) \/ Fail(r)) /\ UNCHANGED sweepVars)
  /\ \A s \in Sweeps :
       /\ WF_allVars(Fire(s))
       /\ \A k \in Checks :
            /\ SF_allVars(Query(s, k))
            /\ \A t \in Tickets :
                 SF_allVars(\E p \in Priority :
                              Flag(s, k, [ticket |-> t, priority |-> p]))
            /\ WF_allVars(Notify(s, k))

FairSpec == DeskSpec /\ Fairness

-----------------------------------------------------------------------------
(* What the sweep promises *)

DeskTypeOK ==
  /\ TypeOK
  /\ fired \in -1..MaxNow
  /\ check \in [Sweeps -> [Checks -> CheckState]]
  /\ mail \in [Tickets -> [Checks -> Nat]]

\* A missed target is recorded once, however often sweeps fail half-way and
\* start again, provided they do not overlap: a check takes only tickets it
\* has not flagged yet, and flag and history row commit together.
BreachLoggedOnce ==
  Cardinality(Sweeps) = 1 => \A t \in Tickets : Exists(t) =>
    /\ history[t]["RESPONSE_SLA_BREACHED"] =
         IF ticket[t].responseBreached THEN 1 ELSE 0
    /\ history[t]["RESOLUTION_SLA_BREACHED"] =
         IF ticket[t].resolutionBreached THEN 1 ELSE 0
    /\ history[t]["AUTO_ESCALATED"] =
         IF ticket[t].slaEscalatedAt # NULL THEN 1 ELSE 0

\* Nobody is accused wrongly: while priorities are left alone, a ticket that
\* was answered (resolved) by its due date is never flagged, although the
\* sweep works from a snapshot that pauses, replies and resumes overtake.
BreachIsReal ==
  Serial => \A t \in Tickets : Exists(t) =>
    /\ ticket[t].responseBreached /\ ticket[t].firstResponseAt # NULL =>
         ticket[t].firstResponseAt > ticket[t].responseDueAt
    /\ ticket[t].resolutionBreached /\ ticket[t].resolvedAt # NULL =>
         ticket[t].resolvedAt > ticket[t].resolutionDueAt

\* Mail follows the record: every queued notice has a history row of its own,
\* a notice that is about to be queued included, in all overlapping sweeps.
MailIsBacked ==
  \A t \in Tickets, k \in Checks :
    mail[t][k] + Cardinality({s \in Sweeps : check[s][k].pc = "notify"
                                             /\ check[s][k].on = t})
      <= history[t][LogOf(k)]

\* A missed response target is flagged in the end, unless the team answers,
\* parks or closes the ticket first; failing sweeps only delay it.
MissedResponseIsFlagged ==
  \A t \in Tickets :
    (Exists(t) /\ ResponseMissed(ticket[t], now))
      ~> ~(Exists(t) /\ ResponseMissed(ticket[t], now))

\* The same for the resolution target and for automatic escalation.
MissedResolutionIsFlagged ==
  \A t \in Tickets :
    (Exists(t) /\ ResolutionMissed(ticket[t], now))
      ~> ~(Exists(t) /\ ResolutionMissed(ticket[t], now))

DueEscalationHappens ==
  \A t \in Tickets :
    (Exists(t) /\ EscalationDue(ticket[t], now))
      ~> ~(Exists(t) /\ EscalationDue(ticket[t], now))

\* All three: what the sweep is there for is done in the end.
SweepCatchesUp ==
  MissedResponseIsFlagged /\ MissedResolutionIsFlagged /\ DueEscalationHappens

=============================================================================
