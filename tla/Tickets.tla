------------------------------- MODULE Tickets -------------------------------
(***************************************************************************)
(* The ticket row and the requests that change it                          *)
(* (apps/backend/src/tickets/tickets.service.ts, sla/sla.service.ts).      *)
(*                                                                         *)
(* Every handler reads the row, decides from that snapshot what to write   *)
(* (a Prisma "data" object, here a patch) and writes it in a later         *)
(* transaction; nothing locks the row between the two.  A request is thus  *)
(* a small state machine: one action per await that touches the database.  *)
(*                                                                         *)
(* Abstractions.  One tick of now is the granularity of every timestamp.   *)
(* Subject, comment bodies, attachments, audit rows and websocket messages *)
(* do not feed back into the row and are left out.  Of the history only    *)
(* the number of rows per action is kept.  A PATCH that changes neither    *)
(* status nor priority, and a customer's PATCH (who may set neither),      *)
(* leave the row alone and are not enumerated.                             *)
(***************************************************************************)
EXTENDS Integers, FiniteSets, Null

CONSTANTS
  Tickets,                  \* ticket ids
  Requests,                 \* one id per HTTP request of the workload
  Operations,               \* the endpoints the workload uses
  Statuses, Priorities,     \* the values its bodies ask for
  Serial,                   \* TRUE: one request at a time, each within a tick
  MaxNow,                   \* bound on the clock
  Ratings,                  \* CSAT scores
  ResponseTarget,           \* SlaRule.responseTargetMinutes per priority
  ResolutionTarget,         \* SlaRule.resolutionTargetMinutes per priority
  Ruled,                    \* the priorities the policy has a rule for
  AddBusinessMinutes(_, _), \* sla/business-hours.util.ts (see BusinessHours)
  KEEP                      \* a column the patch does not mention

Status == {"OPEN", "PENDING", "ON_HOLD", "RESOLVED", "CLOSED"}
Waiting == {"PENDING", "ON_HOLD"}        \* PAUSING_STATUSES
Finished == {"RESOLVED", "CLOSED"}
Priority == {"LOW", "MEDIUM", "HIGH", "URGENT"}
Endpoints == {"update", "reopen", "comment", "csat", "escalate", "merge"}
Logged == {"SLA_PAUSED", "SLA_RESUMED", "REOPENED", "ESCALATED", "MERGED",
           "RESPONSE_SLA_BREACHED", "RESOLUTION_SLA_BREACHED",
           "AUTO_ESCALATED"}

ASSUME TimeAssumption ==
  MaxNow \in Nat
ASSUME TargetAssumption ==
  /\ Ruled \subseteq Priority
  /\ \A from \in 0..MaxNow, p \in Ruled :
       /\ AddBusinessMinutes(from, ResponseTarget[p]) \in Nat
       /\ AddBusinessMinutes(from, ResolutionTarget[p]) \in Nat
ASSUME WorkloadAssumption ==
  /\ Operations \subseteq Endpoints
  /\ Statuses \subseteq Status
  /\ Priorities \subseteq Priority
  /\ Serial \in BOOLEAN
ASSUME MarkerAssumption ==
  /\ NULL # KEEP
  /\ {NULL, KEEP} \cap (Nat \cup Status \cup Priority
                      \cup Ratings \cup Tickets) = {}

VARIABLES
  now,        \* the wall clock
  ticket,     \* the tickets table: a row, or NULL before the ticket exists
  request,    \* where each request's handler has got to
  history     \* ticket_history: how many rows of each action

vars == <<now, ticket, request, history>>

-----------------------------------------------------------------------------
(* Rows, patches and requests *)

Nullable(S) == S \cup {NULL}

Row == [status : Status, priority : Priority, hasPolicy : BOOLEAN,
        createdAt : 0..MaxNow,
        responseDueAt : Nullable(Nat), resolutionDueAt : Nullable(Nat),
        firstResponseAt : Nullable(Nat), resolvedAt : Nullable(Nat),
        closedAt : Nullable(Nat), slaPausedAt : Nullable(Nat),
        responseBreached : BOOLEAN, resolutionBreached : BOOLEAN,
        slaEscalatedAt : Nullable(Nat), reopenedCount : Nat,
        csatRating : Nullable(Ratings), mergedIntoId : Nullable(Tickets)]

Patch == [status : Status \cup {KEEP}, priority : Priority \cup {KEEP},
          responseDueAt : Nat \cup {KEEP}, resolutionDueAt : Nat \cup {KEEP},
          firstResponseAt : Nat \cup {KEEP},
          resolvedAt : Nullable(Nat) \cup {KEEP},
          closedAt : Nullable(Nat) \cup {KEEP},
          slaPausedAt : Nullable(Nat) \cup {KEEP},
          csatRating : Ratings \cup {KEEP}, mergedIntoId : Tickets \cup {KEEP},
          reopens : BOOLEAN]

ASSUME NullIsNoRow == NULL \notin Row

Nothing == [status |-> KEEP, priority |-> KEEP, responseDueAt |-> KEEP,
            resolutionDueAt |-> KEEP, firstResponseAt |-> KEEP,
            resolvedAt |-> KEEP, closedAt |-> KEEP, slaPausedAt |-> KEEP,
            csatRating |-> KEEP, mergedIntoId |-> KEEP, reopens |-> FALSE]

Column(new, old) == IF new = KEEP THEN old ELSE new

\* prisma.ticket.update: the patch's columns are written, the others are kept;
\* reopenedCount is incremented in the database, not from the snapshot.
Written(row, p) ==
  [row EXCEPT !.status = Column(p.status, @),
              !.priority = Column(p.priority, @),
              !.responseDueAt = Column(p.responseDueAt, @),
              !.resolutionDueAt = Column(p.resolutionDueAt, @),
              !.firstResponseAt = Column(p.firstResponseAt, @),
              !.resolvedAt = Column(p.resolvedAt, @),
              !.closedAt = Column(p.closedAt, @),
              !.slaPausedAt = Column(p.slaPausedAt, @),
              !.csatRating = Column(p.csatRating, @),
              !.mergedIntoId = Column(p.mergedIntoId, @),
              !.reopenedCount = IF p.reopens THEN @ + 1 ELSE @]

\* pc: idle -> (recompute ->) commit -> (pause | resume -> commit ->) done.
Request == [pc : {"idle", "recompute", "commit", "pause", "resume",
                  "done", "failed"},
            ticket : Nullable(Tickets), patch : Patch,
            log : SUBSET Logged, then : {"done", "pause", "resume"}]

At(pc) == [pc |-> pc, ticket |-> NULL, patch |-> Nothing, log |-> {},
           then |-> "done"]

\* A handler about to commit patch p on t and to log the actions in log.
Pending(t, p, log) == [pc |-> "commit", ticket |-> t, patch |-> p,
                       log |-> log, then |-> "done"]

Running == {r \in Requests :
              request[r].pc \in {"recompute", "commit", "pause", "resume"}}

\* The handler of request r starts: it finds ticket t (getTicketOrThrow).
Accept(r, t, op) ==
  /\ op \in Operations
  /\ request[r].pc = "idle"
  /\ ticket[t] # NULL
  /\ Serial => Running = {}

-----------------------------------------------------------------------------
(* Creating a ticket *)

DueFromBackwards(from, minutes, hasPolicy, p) ==        \* mutant: a sign error
  IF hasPolicy /\ p \in Ruled THEN from - minutes ELSE NULL

DueFrom(from, minutes, hasPolicy, p) ==
  IF hasPolicy /\ p \in Ruled THEN AddBusinessMinutes(from, minutes) ELSE NULL

NewRow(p, hasPolicy) ==
  [status |-> "OPEN", priority |-> p, hasPolicy |-> hasPolicy,
   createdAt |-> now,
   responseDueAt |-> DueFrom(now, ResponseTarget[p], hasPolicy, p),
   resolutionDueAt |-> DueFrom(now, ResolutionTarget[p], hasPolicy, p),
   firstResponseAt |-> NULL, resolvedAt |-> NULL, closedAt |-> NULL,
   slaPausedAt |-> NULL, responseBreached |-> FALSE,
   resolutionBreached |-> FALSE, slaEscalatedAt |-> NULL,
   reopenedCount |-> 0, csatRating |-> NULL, mergedIntoId |-> NULL]

\* Nobody knows the id before the insert commits, so nothing can interleave
\* with the row: creation is one step.
Create(t) ==
  /\ ticket[t] = NULL
  /\ \E p \in Priorities, hasPolicy \in BOOLEAN :
       ticket' = [ticket EXCEPT ![t] = NewRow(p, hasPolicy)]
  /\ UNCHANGED <<now, request, history>>

-----------------------------------------------------------------------------
(* PATCH /tickets/:id *)

\* Mutant: ON_HOLD is forgotten.
SlaTransitionPendingOnly(old, new) ==
  IF old \notin Waiting /\ new = "PENDING" THEN "pause"
  ELSE IF old \in Waiting /\ new = "OPEN" THEN "resume"
  ELSE "done"

\* What the status change does to the SLA clock once it is committed.
SlaTransition(old, new) ==
  IF old \notin Waiting /\ new \in Waiting THEN "pause"
  ELSE IF old \in Waiting /\ new = "OPEN" THEN "resume"
  ELSE "done"

\* Mutant: closing does not stamp.
StampedResolvedOnly(p) ==
  [p EXCEPT !.resolvedAt = IF p.status = "RESOLVED" THEN now ELSE @]

\* resolvedAt and closedAt are stamped on the way in, never cleared here.
Stamped(p) ==
  [p EXCEPT !.resolvedAt = IF p.status = "RESOLVED" THEN now ELSE @,
            !.closedAt = IF p.status = "CLOSED" THEN now ELSE @]

Update(r, t, status, priority) ==
  LET row == ticket[t]
      s == IF status = row.status THEN KEEP ELSE status
      p == IF priority = row.priority THEN KEEP ELSE priority
  IN /\ Accept(r, t, "update")
     /\ s # KEEP \/ p # KEEP
     /\ request' = [request EXCEPT ![r] =
          [pc |-> IF p = KEEP THEN "commit" ELSE "recompute",
           ticket |-> t,
           patch |-> Stamped([Nothing EXCEPT !.status = s, !.priority = p]),
           log |-> {},
           then |-> IF s = KEEP THEN "done" ELSE SlaTransition(row.status, s)]]
     /\ UNCHANGED <<now, ticket, history>>

\* The due dates the ticket would have had at this priority since creation.
Rebased(row, p) ==
  IF row.hasPolicy /\ p.priority \in Ruled
  THEN [p EXCEPT
         !.responseDueAt =
            IF row.firstResponseAt # NULL THEN @
            ELSE AddBusinessMinutes(row.createdAt, ResponseTarget[p.priority]),
         !.resolutionDueAt =
            IF row.resolvedAt # NULL THEN @
            ELSE AddBusinessMinutes(row.createdAt,
                                    ResolutionTarget[p.priority])]
  ELSE p

\* A second read of the row; the status part of the patch is built after it.
Recompute(r) ==
  /\ request[r].pc = "recompute"
  /\ request' = [request EXCEPT
       ![r].pc = "commit",
       ![r].patch = Stamped(Rebased(ticket[request[r].ticket], @))]
  /\ UNCHANGED <<now, ticket, history>>

-----------------------------------------------------------------------------
(* The other endpoints: one read, one decision *)

ReopenPatch == [Nothing EXCEPT !.status = "OPEN", !.resolvedAt = NULL,
                               !.closedAt = NULL, !.reopens = TRUE]

Reopen(r, t) ==
  /\ Accept(r, t, "reopen")
  /\ ticket[t].status \in Finished
  /\ request' = [request EXCEPT ![r] = Pending(t, ReopenPatch, {"REOPENED"})]
  /\ UNCHANGED <<now, ticket, history>>

\* Mutant: every reply counts as the first.
AnyStaffReply(row, staff, public, own) == staff /\ public /\ ~own

\* own: the author is the ticket's requester.
IsFirstStaffReply(row, staff, public, own) ==
  staff /\ public /\ ~own /\ row.firstResponseAt = NULL

\* A customer's public reply reopens a finished ticket; the first public reply
\* by staff other than the requester stops the response clock.
AddComment(r, t, staff, public, own) ==
  LET row == ticket[t]
      autoReopen == ~staff /\ public /\ row.status \in Finished
      isFirstStaffReply == IsFirstStaffReply(row, staff, public, own)
      p == IF autoReopen THEN ReopenPatch
           ELSE [Nothing EXCEPT !.firstResponseAt = now]
  IN /\ Accept(r, t, "comment")
     /\ autoReopen \/ isFirstStaffReply      \* other comments leave the row
     /\ request' = [request EXCEPT ![r] =
          Pending(t, p, IF autoReopen THEN {"REOPENED"} ELSE {})]
     /\ UNCHANGED <<now, ticket, history>>

RateCsat(r, t, rating) ==
  /\ Accept(r, t, "csat")
  /\ ticket[t].status \in Finished
  /\ ticket[t].csatRating = NULL
  /\ request' = [request EXCEPT ![r] =
       Pending(t, [Nothing EXCEPT !.csatRating = rating], {})]
  /\ UNCHANGED <<now, ticket, history>>

\* dto.priority ?? 'URGENT': any priority may be asked for, none is compared
\* with the ticket's, and the due dates stay.
Escalate(r, t, priority) ==
  /\ Accept(r, t, "escalate")
  /\ request' = [request EXCEPT ![r] =
       Pending(t, [Nothing EXCEPT !.priority = priority], {"ESCALATED"})]
  /\ UNCHANGED <<now, ticket, history>>

\* Only the source is looked at: it must not have been merged before.
Merge(r, source, target) ==
  /\ source # target
  /\ Accept(r, source, "merge")
  /\ ticket[target] # NULL
  /\ ticket[source].mergedIntoId = NULL
  /\ request' = [request EXCEPT ![r] =
       Pending(source,
               [Nothing EXCEPT !.mergedIntoId = target, !.status = "CLOSED",
                               !.closedAt = now],
               {"MERGED"})]
  /\ UNCHANGED <<now, ticket, history>>

-----------------------------------------------------------------------------
(* Stopping and restarting the SLA clock, after the status has committed *)

PausePatch == [Nothing EXCEPT !.slaPausedAt = now]

\* Mutant: a pause does not look whether the clock is stopped already.
PauseAgain(r) ==
  /\ request[r].pc = "pause"
  /\ request' = [request EXCEPT ![r] =
       Pending(request[r].ticket, PausePatch, {"SLA_PAUSED"})]
  /\ UNCHANGED <<now, ticket, history>>

Pause(r) ==
  LET t == request[r].ticket
  IN /\ request[r].pc = "pause"
     /\ request' = [request EXCEPT ![r] =
          IF ticket[t].slaPausedAt # NULL THEN At("done")
          ELSE Pending(t, PausePatch, {"SLA_PAUSED"})]
     /\ UNCHANGED <<now, ticket, history>>

\* Mutant: the response target is not moved.
ResumePatchResolutionOnly(row) ==
  [Nothing EXCEPT
     !.slaPausedAt = NULL,
     !.resolutionDueAt = IF row.resolvedAt = NULL /\ row.resolutionDueAt # NULL
                         THEN row.resolutionDueAt + (now - row.slaPausedAt)
                         ELSE KEEP]

\* Each pending due date moves by the wall-clock length of the pause.
ResumePatch(row) ==
  LET paused == now - row.slaPausedAt
      Shifted(due, metAt) ==
        IF metAt = NULL /\ due # NULL THEN due + paused ELSE KEEP
  IN [Nothing EXCEPT
       !.slaPausedAt = NULL,
       !.responseDueAt = Shifted(row.responseDueAt, row.firstResponseAt),
       !.resolutionDueAt = Shifted(row.resolutionDueAt, row.resolvedAt)]

Resume(r) ==
  LET t == request[r].ticket
  IN /\ request[r].pc = "resume"
     /\ request' = [request EXCEPT ![r] =
          IF ticket[t].slaPausedAt = NULL THEN At("done")
          ELSE Pending(t, ResumePatch(ticket[t]), {"SLA_RESUMED"})]
     /\ UNCHANGED <<now, ticket, history>>

-----------------------------------------------------------------------------
(* The transaction, and what can go wrong *)

\* prisma.$transaction: row and history together, then the clock if the
\* status change calls for it.
Commit(r) ==
  LET q == request[r]
  IN /\ q.pc = "commit"
     /\ ticket' = [ticket EXCEPT ![q.ticket] = Written(@, q.patch)]
     /\ history' = [history EXCEPT ![q.ticket] =
          [a \in Logged |-> IF a \in q.log THEN @[a] + 1 ELSE @[a]]]
     /\ request' = [request EXCEPT ![r] =
          IF q.then = "done" THEN At("done")
          ELSE [At(q.then) EXCEPT !.ticket = q.ticket]]
     /\ UNCHANGED now

\* A database error or a restart of the process ends the handler where it
\* stands: what is committed stays, the rest is never done.
Fail(r) ==
  /\ r \in Running
  /\ request' = [request EXCEPT ![r] = At("failed")]
  /\ UNCHANGED <<now, ticket, history>>

Tick ==
  /\ now < MaxNow
  /\ Serial => Running = {}
  /\ now' = now + 1
  /\ UNCHANGED <<ticket, request, history>>

Start(r, t) ==
  \/ \E s \in Statuses \cup {KEEP}, p \in Priorities \cup {KEEP} :
       Update(r, t, s, p)
  \/ Reopen(r, t)
  \/ \E staff, public, own \in BOOLEAN : AddComment(r, t, staff, public, own)
  \/ \E rating \in Ratings : RateCsat(r, t, rating)
  \/ \E p \in Priorities : Escalate(r, t, p)
  \/ \E target \in Tickets : Merge(r, t, target)

Advance(r) == Recompute(r) \/ Commit(r) \/ Pause(r) \/ Resume(r)

Init ==
  /\ now = 0
  /\ ticket = [t \in Tickets |-> NULL]
  /\ request = [r \in Requests |-> At("idle")]
  /\ history = [t \in Tickets |-> [a \in Logged |-> 0]]

Next ==
  \/ Tick
  \/ \E t \in Tickets : Create(t)
  \/ \E r \in Requests : \/ \E t \in Tickets : Start(r, t)
                         \/ Advance(r)
                         \/ Fail(r)

Spec == Init /\ [][Next]_vars

-----------------------------------------------------------------------------
(* What the design promises *)

TypeOK ==
  /\ now \in 0..MaxNow
  /\ ticket \in [Tickets -> Nullable(Row)]
  /\ request \in [Requests -> Request]
  /\ history \in [Tickets -> [Logged -> Nat]]

Exists(t) == ticket[t] # NULL

\* No handler is under way and none was cut short.
Settled == \A r \in Requests : request[r].pc \in {"idle", "done"}

\* A resolved ticket says when it was resolved and a closed one when it was
\* closed, whatever handlers race: the dashboard's averages divide by it.
FinishedIsStamped ==
  \A t \in Tickets : Exists(t) =>
    /\ ticket[t].status = "RESOLVED" => ticket[t].resolvedAt # NULL
    /\ ticket[t].status = "CLOSED" => ticket[t].closedAt # NULL

\* reopenedCount agrees with the REOPENED rows of the history under every
\* interleaving of agents' reopen and customers' replies: each increments in
\* the database, in the transaction that writes the row.
ReopensAreCounted ==
  \A t \in Tickets : Exists(t) =>
    ticket[t].reopenedCount = history[t]["REOPENED"]

\* Both: what a ticket's row says of how it was finished and reopened is the
\* truth, whichever handlers raced to change its status.
LifecycleIsRecorded == FinishedIsStamped /\ ReopensAreCounted

\* One request at a time, a pause is logged once and ended once: the history
\* shows an open pause exactly while slaPausedAt is set, even when a handler
\* dies between the status change and the pause.
PausesAreBalanced ==
  Serial => \A t \in Tickets : Exists(t) =>
    history[t]["SLA_PAUSED"] =
      history[t]["SLA_RESUMED"] + (IF ticket[t].slaPausedAt = NULL THEN 0 ELSE 1)

\* One request at a time, the clock of a ticket that waits for somebody else
\* is stopped once the handler that parked it has ended.
WaitingStopsTheClock ==
  Serial /\ Settled => \A t \in Tickets :
    Exists(t) /\ ticket[t].status \in Waiting => ticket[t].slaPausedAt # NULL

\* One request at a time, the first staff reply and the customer's rating
\* are recorded once and stay (rateCsat and addComment check, then write).
FirstsStay ==
  [][Serial => \A t \in Tickets : Exists(t) =>
    /\ ticket[t].firstResponseAt # NULL =>
         ticket'[t].firstResponseAt = ticket[t].firstResponseAt
    /\ ticket[t].csatRating # NULL =>
         ticket'[t].csatRating = ticket[t].csatRating]_vars

-----------------------------------------------------------------------------
(* What the repository says of the program and the code does not keep *)

\* sla.service.ts:194: the clock is resumed when a ticket moves back to OPEN.
OpenMeansRunning ==
  Settled => \A t \in Tickets :
    Exists(t) /\ ticket[t].status = "OPEN" => ticket[t].slaPausedAt = NULL

\* sla.service.ts:180: a pause never clobbers the original pause timestamp.
PauseKeepsItsStart ==
  [][\A t \in Tickets :
       Exists(t) /\ ticket[t].slaPausedAt # NULL =>
         ticket'[t].slaPausedAt \in {ticket[t].slaPausedAt, NULL}]_vars

\* docs/database.md:79: a ticket merges into exactly one surviving ticket, so
\* following mergedIntoId from a ticket never leads back to it.
MergeHasASurvivor ==
  \A t, u \in Tickets :
    ~ /\ Exists(t) /\ ticket[t].mergedIntoId = u
      /\ Exists(u) /\ ticket[u].mergedIntoId = t

=============================================================================
