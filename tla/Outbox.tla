------------------------------- MODULE Outbox -------------------------------
(***************************************************************************)
(* The events a webhook hears of one ticket.  A handler of                 *)
(* tickets.service.ts commits, finds the webhooks that have subscribed,    *)
(* and queues one delivery for each, one await after the other and outside *)
(* of the transaction; the first that fails ends the request.  Workers     *)
(* deliver several at a time.  A delivery that fails is given up: nothing  *)
(* sets attempts, and BullMQ's default is one.  A job is run twice only if *)
(* its worker dies over it.                                                *)
(*                                                                         *)
(* Reads and commits are one step here; Tickets and TicketDesk take them   *)
(* apart.  The rows of the audit log are left out: AuditService.record     *)
(* never throws, and nothing of this reads them.  WebhooksService.trigger, *)
(* which is to mirror it, may: Break.                                      *)
(***************************************************************************)
EXTENDS Naturals, Sequences, FiniteSets, Functions, Null

CONSTANTS
  Requests, Webhooks,
  Wants,        \* the events each webhook subscribes to
  Concurrency,  \* of the delivery worker
  MaxChanges,   \* bound: changes of the ticket
  MaxFaults     \* bound: broken requests, failed deliveries, dead workers

VARIABLES
  status,      \* of the ticket, NULL before it is created
  changes,     \* what has been committed: the event and the new status
  request,     \* per request: its change and the webhooks left to queue
  answered,    \* changes whose request got to its end
  since,       \* per webhook: the changes before it, NULL while there is none
  removed,     \* webhooks that have been deleted
  waiting,     \* jobs of the queue, in order
  active,      \* jobs a worker has taken
  arrived,     \* per webhook: the changes it has heard of, in order
  failed,      \* jobs that will not be tried again
  raced,       \* two requests, or two deliveries, have overlapped
  faults

desk == <<status, changes, answered>>
hooks == <<since, removed>>
queue == <<waiting, active, failed>>
outboxVars == <<desk, request, hooks, queue, arrived, raced, faults>>

-----------------------------------------------------------------------------
(* Requests *)

Statuses == {"OPEN", "RESOLVED", "CLOSED"}

Events == {"ticket.created", "ticket.status_changed", "ticket.escalated"}
StatusEvents == {"ticket.created", "ticket.status_changed"}

\* Changes of the status of which no webhook is told: split creates a ticket,
\* reopen and a customer's reply open it again, merge closes its source.
Silent == {"split", "reopened", "merged"}
Change == [event : Events \cup Silent, to : Statuses]

ASSUME OutboxAssumption ==
  /\ NULL \notin Nat
  /\ Wants \in [Webhooks -> SUBSET Events]

IsMerged == \E n \in DOMAIN changes : changes[n].event = "merged"

\* What a handler may do to the ticket as it is.  A PATCH to the status it
\* has changes nothing, and a ticket is merged once, in whatever status.
Allowed(c) ==
  \/ c.event \in {"ticket.created", "split"} /\ c.to = "OPEN" /\ status = NULL
  \/ c.event = "ticket.status_changed" /\ c.to # status /\ status # NULL
  \/ c.event = "ticket.escalated" /\ c.to = status
  \/ c.event = "reopened" /\ c.to = "OPEN" /\ status \in {"RESOLVED", "CLOSED"}
  \/ c.event = "merged" /\ c.to = "CLOSED" /\ status # NULL /\ ~IsMerged

AtRest == [change |-> 0, found |-> FALSE, targets |-> {}]

Commit(r, c) ==
  /\ request[r] = AtRest /\ Allowed(c) /\ Len(changes) < MaxChanges
  /\ status' = c.to
  /\ changes' = Append(changes, c)
  /\ request' = [request EXCEPT ![r].change = Len(changes) + 1,
                                ![r].found = (c.event \in Silent)]
  /\ raced' = (raced \/ \E other \in Requests : request[other] # AtRest)
  /\ UNCHANGED <<answered, hooks, queue, arrived, faults>>

\* Mutant: the subscribers there were when the ticket was created.
SubscribersOfOld(n) ==
  {w \in Webhooks \ removed : since[w] = 0 /\ changes[n].event \in Wants[w]}
Subscribers(n) ==
  {w \in Webhooks \ removed : since[w] # NULL /\ changes[n].event \in Wants[w]}

\* WebhooksService.trigger: find them ...
Find(r) ==
  /\ request[r].change # 0 /\ ~request[r].found
  /\ request' = [request EXCEPT ![r].found = TRUE,
                                ![r].targets = Subscribers(request[r].change)]
  /\ UNCHANGED <<desk, hooks, queue, arrived, raced, faults>>

\* Mutant: the newest job first.
EnqueueFirst(job) == <<job>> \o waiting
Enqueue(job) == Append(waiting, job)

\* ... and queue a job for each of them.
AddJob(r, w) ==
  /\ w \in request[r].targets
  /\ waiting' = Enqueue([webhook |-> w, change |-> request[r].change, again |-> FALSE])
  /\ request' = [request EXCEPT ![r].targets = @ \ {w}]
  /\ UNCHANGED <<desk, hooks, active, failed, arrived, raced, faults>>

Answer(r) ==
  /\ request[r].found /\ request[r].targets = {}
  /\ answered' = answered \cup {request[r].change}
  /\ request' = [request EXCEPT ![r] = AtRest]
  /\ UNCHANGED <<status, changes, hooks, queue, arrived, raced, faults>>

\* An exception or a restart: the rest is never made up for.
Break(r) ==
  /\ request[r] # AtRest /\ faults < MaxFaults /\ faults' = faults + 1
  /\ request' = [request EXCEPT ![r] = AtRest]
  /\ UNCHANGED <<desk, hooks, queue, arrived, raced>>

-----------------------------------------------------------------------------
(* Webhooks and the worker *)

Subscribe(w) ==
  /\ since[w] = NULL
  /\ since' = [since EXCEPT ![w] = Len(changes)]
  /\ UNCHANGED <<desk, request, removed, queue, arrived, raced, faults>>

\* The jobs in the queue carry the address and are delivered all the same.
Remove(w) ==
  /\ since[w] # NULL /\ w \notin removed
  /\ removed' = removed \cup {w}
  /\ UNCHANGED <<desk, request, since, queue, arrived, raced, faults>>

Take ==
  /\ waiting # <<>> /\ Cardinality(active) < Concurrency
  /\ waiting' = Tail(waiting)
  /\ active' = active \cup {Head(waiting)}
  /\ raced' = (raced \/ active # {})
  /\ UNCHANGED <<desk, request, hooks, failed, arrived, faults>>

Arrive(job) == arrived' = [arrived EXCEPT ![job.webhook] = Append(@, job.change)]

\* Mutant: a subscriber that does not answer is asked again and again.
DeliverUntilAnswered(job) ==
  /\ job \in active /\ UNCHANGED failed
  /\ \/ Arrive(job) /\ active' = active \ {job} /\ UNCHANGED <<waiting, faults>>
     \/ active' = active \ {job} /\ waiting' = Append(waiting, job) /\ UNCHANGED <<arrived, faults>>
  /\ UNCHANGED <<desk, request, hooks, raced>>

\* The subscriber answers, or it refuses or lets DELIVERY_TIMEOUT_MS pass,
\* whether it has read the event or not.
Deliver(job) ==
  /\ job \in active /\ active' = active \ {job}
  /\ \/ Arrive(job) /\ UNCHANGED <<failed, faults>>
     \/ /\ faults < MaxFaults /\ faults' = faults + 1
        /\ failed' = failed \cup {job}
        /\ Arrive(job) \/ UNCHANGED arrived
  /\ UNCHANGED <<desk, request, hooks, waiting, raced>>

\* The worker dies over it: the job is put back, once, whatever came of it.
Stall(job) ==
  /\ job \in active /\ active' = active \ {job}
  /\ faults < MaxFaults /\ faults' = faults + 1
  /\ IF job.again THEN failed' = failed \cup {job} /\ UNCHANGED waiting
     ELSE waiting' = Append(waiting, [job EXCEPT !.again = TRUE]) /\ UNCHANGED failed
  /\ Arrive(job) \/ UNCHANGED arrived
  /\ UNCHANGED <<desk, request, hooks, raced>>

-----------------------------------------------------------------------------
OutboxInit ==
  /\ status = NULL /\ changes = <<>> /\ answered = {}
  /\ request = [r \in Requests |-> AtRest]
  /\ since \in [Webhooks -> {NULL, 0}] /\ removed = {}
  /\ waiting = <<>> /\ active = {} /\ failed = {}
  /\ arrived = [w \in Webhooks |-> <<>>]
  /\ raced = FALSE /\ faults = 0

Handle(r) ==
  \/ \E c \in Change : Commit(r, c)
  \/ Find(r) \/ (\E w \in Webhooks : AddJob(r, w)) \/ Answer(r) \/ Break(r)
Work == Take \/ \E job \in active : Deliver(job) \/ Stall(job)

OutboxNext ==
  \/ \E r \in Requests : Handle(r)
  \/ \E w \in Webhooks : Subscribe(w) \/ Remove(w)
  \/ Work

\* The worker goes on, and no fetch outlives DELIVERY_TIMEOUT_MS.
OutboxFairness == WF_outboxVars(Take) /\ WF_outboxVars(\E job \in active : Deliver(job))

OutboxSpec == OutboxInit /\ [][OutboxNext]_outboxVars /\ OutboxFairness

-----------------------------------------------------------------------------
(* Properties *)

Jobs == active \cup {waiting[i] : i \in DOMAIN waiting}

Times(w, n) == Cardinality({i \in DOMAIN arrived[w] : arrived[w][i] = n})

Heard(w, n) == n \in Range(arrived[w])
OnItsWay(w, n) == \E job \in Jobs : job.webhook = w /\ job.change = n
GivenUp(w, n) == \E job \in failed : job.webhook = w /\ job.change = n
Asked(w, n) == since[w] # NULL /\ changes[n].event \in Wants[w]

\* What a webhook misses of what it asked for it misses by a failed delivery
\* of its own.  An event whose request was answered has arrived or is on its
\* way, if the webhook was there before it and is there still, unless the
\* delivery was given up; and no more deliveries are given up than have
\* failed.  Nobody is sent what he has not asked for, and nothing is sent
\* twice but by the death of a worker (webhooks.service.ts:53-72).
OnlyFailuresAreMissed ==
  /\ \A w \in Webhooks, n \in DOMAIN changes :
       /\ /\ n \in answered /\ Asked(w, n) /\ since[w] < n /\ w \notin removed
          /\ ~GivenUp(w, n)
          => Heard(w, n) \/ OnItsWay(w, n)
       /\ Heard(w, n) \/ OnItsWay(w, n) \/ GivenUp(w, n) => Asked(w, n)
       /\ Times(w, n) <= 1 + faults
  /\ Cardinality(failed) <= faults

LastOf(kinds) ==
  LET those == {n \in DOMAIN changes : changes[n].event \in kinds}
  IN IF those = {} THEN 0 ELSE CHOOSE n \in those : \A m \in those : m <= n

\* A subscriber that goes by the last event it heard knows the status of the
\* ticket, as long as no two requests and no two deliveries have overlapped
\* and nothing broke, for there is no order in the queue but that of the
\* workers; and unless the ticket was reopened or merged since, which is no
\* event (tickets.service.ts:434-450, 453-498, 868-911).
LastWordIsTheStatus ==
  ~raced /\ faults = 0 /\ Jobs = {} /\ answered = DOMAIN changes =>
    \A w \in Webhooks :
      LET n == LastOf(StatusEvents)
      IN StatusEvents = Wants[w] /\ since[w] = 0 /\ w \notin removed /\ n > 0 =>
           /\ arrived[w][Len(arrived[w])] = n
           /\ n > LastOf(Silent) => changes[arrived[w][Len(arrived[w])]].to = status

\* No webhook is owed a delivery for ever: once the ticket has changed for the
\* last time its jobs come to an end, whatever the subscribers do.
QueuesDrain == \A w \in Webhooks :
  (\E job \in Jobs : job.webhook = w) ~> ~(\E job \in Jobs : job.webhook = w)

-----------------------------------------------------------------------------
(* What the repository says of the program and the code does not keep *)

\* webhook-delivery.processor.ts:52: "BullMQ retries per the queue's default
\* job options - log and let it retry": no delivery is given up before it was
\* tried again.
FailedIsRetried == \A job \in failed : job.again

=============================================================================
