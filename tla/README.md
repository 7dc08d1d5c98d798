# Formal models of sentinel-desk

Sentinel-desk is a multi-tenant help desk: a NestJS backend over PostgreSQL
(Prisma), BullMQ queues, a websocket gateway, and a Next.js frontend. Its own
logic is about tickets with SLA clocks, and about sessions. Handlers are
asynchronous functions that read a row, decide from that snapshot, and write in
a later transaction; no row is ever locked and no update is conditional on what
was read. Nearly everything that is hard in this code comes from that, from the
clock, and from work that is done in two steps of which only the first may
happen.

Paths below are relative to `apps/backend/src/` unless they start with `apps/`
or `docs/`.

## 1. Inventory

| Component | State | Operations | Talks to |
| --- | --- | --- | --- |
| Ticket lifecycle (`tickets/`) | `tickets`, `ticket_history`, comments, watchers | create, update, reopen, comment, rate, escalate, merge, split, assign, watch, tag | SLA clock (calls), realtime and webhooks (events), queues |
| SLA clock (`sla/sla.service.ts`) | the due dates and `slaPausedAt` of a ticket | compute, recompute, pause, resume, simulate | called by the ticket handlers |
| Business hours (`sla/business-hours.util.ts`) | none: a pure loop | `addBusinessMinutes` | called by the SLA clock |
| Breach sweep (`sla/sla-breach-check.service.ts`) | breach flags, `slaEscalatedAt`, priority | cron, three checks in parallel | the ticket rows (shared state), the mail queue, notifications |
| Sessions (`auth/`) | `sessions`, `users.status`, mail links, cookies | login, refresh, logout, revoke, reset, verify | the browser's interceptor (`apps/frontend/src/lib/api-client.ts`), team administration |
| Team (`users/users.service.ts`) | users, roles, invitations | invite, accept, change role, suspend | sessions |
| Policies and schedules (`sla/sla-policies.service.ts`, `sla/business-hours.service.ts`) | which policy and schedule is the default | create, update, remove | read by the SLA clock |
| Realtime (`realtime/`) | sockets per user, rooms | connect, disconnect, join | the frontend's presence context |
| Ticket administration (`tickets/`, the rest of it) | numbers, comments, assignee, watchers, notifications | create, split, comment, assign, unassign, escalate, tag, watch | the ticket's room, the counter of the organization |
| Webhooks (`webhooks/`) | subscriptions, delivery jobs | create, remove, trigger, deliver | called by the ticket handlers, a BullMQ queue |
| API client (`apps/frontend/src/lib/api-client.ts`) | cookies, the CSRF token, one shared refresh | send, retry, expire | the auth endpoints, the guards |
| Pages and hooks (`apps/frontend/src/app`, `hooks`, `components`) | the query cache | load, mutate, invalidate, poll | every controller, the events of the gateway |
| Mail, notifications, AI, storage, audit, knowledge base, macros, saved filters | rows written once, jobs | mostly single statements | queues and external services |

What is hard, and for whom:

* *Interleaving.* Any two handlers of one ticket or one account, at every
  `await` that touches the database; the sweep against all of them; two sweeps.
* *Failure between two steps.* The status commits and the pause never happens;
  the breach flag commits and the mail is never queued; a reply with a rotated
  cookie is lost.
* *Time.* Due dates that move when a ticket is parked, "due now" against
  "missed", tokens issued in the same second, session expiry.
* *Long legal sequences.* Park, resolve, reopen; merge one way and then the
  other.
* *Caches.* What a tab has loaded, against what it and others have changed since;
  events and invalidations that meet a load under way.
* *Arithmetic at boundaries.* Slots that begin before the cursor, meet, overlap
  or never open.

What makes each component correct:

* tickets: a finished ticket is stamped, counts agree with the history, what was
  first stays first, a merged ticket has a survivor;
* SLA clock: a countdown that stands still while the ticket waits for somebody
  else and that only a priority change sets anew;
* business hours: exactly as many business minutes as promised;
* sweep: each missed target is recorded once, never wrongly, and in the end;
* sessions: revoked means revoked, one session per login, no false theft alarm
  for a browser that behaves, suspension is effective;
* administration: numbers without gaps, a history that explains the assignee, notes
  and other customers' comments that no customer sees, nobody told twice;
* team: roles come from administrators, somebody can manage, an invitation is the
  way in;
* webhooks: who has subscribed misses nothing but what failed to be delivered, nothing
  is queued for ever;
* browser: one refresh at a time, a room that follows the page, a typing line that
  ends, screens that show what was changed, and no page that offers what is refused;
* presence: nobody who is connected is counted out, and tabs show what the gateway
  holds once they have heard everything.

## 2. Modules

| Module | Models | Instances |
| --- | --- | --- |
| `Null` | `NULL`, which the components share | |
| `Tickets` | the ticket row, its handlers, and the SLA clock's pause, resume and recomputation | `MCTickets`, `MCAccounts` |
| `SlaClock` | abstract: one countdown per ticket | |
| `TicketClocks` | the mapping from a ticket's columns to two `SlaClock`s (response, resolution) | `MCTickets` |
| `SlaSweep` | the breach sweep, on top of `Tickets` | `MCSlaSweep` |
| `BusinessHours` | the loop of `addBusinessMinutes` | `MCBusinessHours`, `MCDueDates` |
| `Sessions` | sessions, cookies and account status | `MCSessions`, `MCAccounts` |
| `TicketDesk` | numbers, thread, assignee, history, notifications and the ticket's room | `MCAccounts` |
| `Presence` | the gateway's socket counts and what browser tabs show of them | `MCTabs`, `MCPresence` |
| `Team` | accounts, roles, invitations, mail links, API keys | `MCPresence` |
| `Rooms` | a ticket page, its connection, the ticket's room, typing | `MCDueDates` |
| `ApiClient` | a browser's cookies, CSRF token and refresh, beside the guards | `MCDueDates` |
| `Clients` | `ApiClient` and `Rooms` together: the two channels of a tab | `MCDueDates` |
| `WebApp` | tables: what every hook and controller does, what every page mounts | |
| `Screens` | the query cache of a tab, on top of `WebApp` | `MCScreens` |
| `Outbox` | webhook events of a ticket, from the commit to the subscriber | `MCOutbox`, `MCDueDates` |
| `TicketsProofs` | proofs about `Tickets`, and that it implements `SlaClock` | |
| `SlaSweepProofs` | proofs about `SlaSweep` | |
| `BusinessHoursProofs` | proofs about `BusinessHours` | |
| `SessionsProofs` | proofs about `Sessions` | |
| `TabProofs` | proofs about `Presence`, `WebApp` and `Screens` | |
| `TeamProofs` | proofs about `Team` | |
| `TicketDeskProofs` | proofs about `TicketDesk` | |
| `ClientProofs` | proofs about `Rooms`, `ApiClient` and `Outbox` | |

Four MC modules put components that share no variable side by side: `MCScreens`
(`Tickets`, `Screens`), `MCAccounts` (`Sessions`, `TicketDesk`, and an
instance of `Tickets` with variables and bounds of its own), `MCDueDates`
(`BusinessHours`, `Outbox`, `ApiClient`, `Rooms`) and `MCPresence` (`Presence`, `Team`).
A variable `part` is chosen in the initial state, and the other components rest in an
initial state of their own. That is the union of the state spaces, not their product,
and the fairness of each component is its own. Constants that mean nothing more than
"some keys" take the same model values in all parts.

### Tickets

`ticket[t]` is the row (or `NULL` before it exists), `history[t]` the number of
history rows per action, `request[r]` the handler of request `r`: a program
counter, the patch (Prisma's `data`) it has decided on, and what follows the
commit. A handler starts with one of `Update`, `Reopen`, `AddComment`,
`RateCsat`, `Escalate`, `Merge`, which read the row and build the patch;
`Recompute` is the second read that a priority change makes
(`sla.service.ts:91`); `Commit` writes row and history; `Pause` and `Resume` are
the SLA calls that `update` makes after its commit (`tickets.service.ts:414`),
each again a read and a `Commit`. `Fail` ends a handler at any of these points,
as a database error or a restart would. `Create` is one step, because nobody
knows the new id before the insert commits.

Left out: audit rows, PATCHes that change neither status nor priority, and what
`TicketDesk` models: comments, tags, watchers, assignment, `split`, messages. None
of it feeds back into the columns modelled here. One tick of `now` stands for
the granularity of a timestamp. The business-hours computation enters as the
constant operator `AddBusinessMinutes`; `BusinessHours` models it by itself.

`Serial = TRUE` restricts the workload to one request at a time, each within a
tick. Properties that the code cannot keep under races are stated for that case
("one request at a time"), and the races have runs of their own.

### TicketDesk

The rest of the ticket endpoints, handlers taken apart at the same points.
`nextNumber` is the counter of the organization and `rowLock` the transaction that
has incremented it (the increment locks the row until commit or rollback: `Create`
and `Split` take it with `Number`). `thread` holds the comments, `log` the history
rows that speak of the assignee, `notices` the notifications, `room` who has
joined the ticket's room, `shown` what customers got to see, by answer or by push.
`StartComment` reads the row, `AddComment` commits, `Attach`, `Push` and `Tell`
follow one await after the other, and `Fail` may end a handler in between.
`Assign`, `Unassign` and `Escalate` write the row and a log entry from an earlier
read. Left out: bodies and files themselves, and unread counts. Of an answer only the
comments are kept (`VisibleTo`), and `CustomersSeeTheirs` speaks of comments only: the
number and subject of the ticket this one was merged into or split from, which
`toTicketDetail` returns as well (`tickets.service.ts:1157-1158`), and the history that
`getHistory` returns are not modelled, nor is `merge`, which moves no comment. Staff may
merge a ticket into one of another customer, whose subject the requester then reads; no
text of the repository says otherwise.

### SlaClock and TicketClocks

`SlaClock` says what an SLA clock promises: a countdown that loses one per tick
while it runs, stands still while paused, is stopped when the target is met, and
is set anew only when the priority is set. `TicketClocks` reads it off the row:
the time left is the due date minus the wall clock, or minus `slaPausedAt` while
that is set. `ResponseClock` and `ResolutionClock` say that every step of
`Tickets` is a step of the clock or leaves it alone. The clock is silent about
what a priority change sets it to, because the code recomputes from creation and
forgets earlier pauses, and nothing in the repository says otherwise.

### SlaSweep

Each member of `Sweeps` is a sweep that may be under way. `Fire` is cron;
`Query` takes the snapshot of the candidates (the three `where` clauses are
`ResponseMissed`, `ResolutionMissed`, `EscalationDue`); `Flag` is the
transaction for one candidate; `Notify` queues the mail; `Break` is an exception
or a restart, which ends this check only. Requests of `Tickets` interleave with
all of this.

### BusinessHours

The loop of `addBusinessMinutes`, one action per branch. `EnterDay` collects the
day's slots (none on a holiday), `TakeSlot` takes the earliest one and skips,
consumes or finishes, `NextDay` moves the cursor to midnight, `GiveUp` is the
exception, `AddWallClock` the fallback for a schedule without slots. Instants are
minutes since a local midnight. Seconds are left out, and so are days on which
the clocks change: there `startOf('day').plus({ minutes })` counts elapsed
minutes while slots are in local time (listed as a hazard).

### Sessions

One account: every query filters by user or by session. `session` is the table,
`jar[b]` the refresh cookie of browser `b`, `handler[h]` a request under way. A
token is the pair of its session and the second it was issued in, because that is
what is signed: two tokens of a session issued in the same second are equal.
`Login`/`Issue`/`Store` are login and `issueSession`; `Refresh`/`CheckAccount`/
`Rotate` and `KillReused` are refresh; `Reply` delivers the cookie and `Lose`
drops it. `Suspend`/`Evict` is `updateMember`, `ResetPassword`/`CommitReset` and
`VerifyEmail`/`CommitVerify` are the mail links. Browsers in `Flaky` have several
tabs and lose replies; the others have one tab, whose interceptor shares one
refresh promise (`MayAsk`), and a network that delivers.

### Team

An account is named by its address, an organization by its slug (both unique
columns). `member` is the users table, `link` the tokens of invitations and mails,
`access` the sessions with the role of their latest access token, `keys` who owns
an API key. `Speaks` is `JwtAuthGuard`: a live session speaks with the role of its
token, which a demotion leaves as it is until the next refresh, and a key with its
owner's present role. `Signup`, `Invite` and `UpdateMember` check and the `Commit`
actions write; `Mail` may lose the mail, because `MailService.send` swallows errors;
`Follow` reads a token and `AcceptInvite`, `VerifyEmail` and `ResetPassword` use it
later, whatever has become of it. `calm` is a workload of one request at a time with
fresh tokens: what the code cannot keep under races is stated for it.

### ApiClient

One browser of one account: `Send` and the request interceptor, the server's guards
and the refresh endpoint, `Succeed`, `Retry` (the 401 interceptor with its shared
`refreshPromise`), `Again`, `Desist`, `Expired` (the jump to the login page),
`Reload`. The reply of any call may be lost or come late; cookies are set when the
reply comes. Each rotation is a generation; the CSRF cookie and the one in memory are
those of some generation.

### Rooms

One tab; the others are reduced to the events that reach its room. Messages of a
connection are in order. `HandleJoin` waits for the database (`Joined`),
`HandleLeave` does not; a message that is handled before `handleConnection` has found
the user is ignored. `Mount` and `Unmount` are the page's effect and its cleanup,
`Rejoin` its `connect` listener, `Show` its listeners, `Stale` the timeout of
`TYPING_STALE_MS`, `Type` and `StopTyping` the reply composer of the others.

### WebApp and Screens

`WebApp` is what the code declares, as functions: for each hook which queries its
`onSuccess` makes stale (`UseTickets` ...), for each controller who may call what and
which queries an answer changes (`TicketsController` ...), which queries and
mutations each page mounts (`Content`), what the socket's listeners invalidate
(`Heard`). `Screens` runs one query of the cache at a time under one role, with one
mutation of the user's own and one of somebody else's, over every page that mounts
the query or offers the mutation: `Read`/`Succeed`/`FetchFails` are a fetch with its
retries, `Navigate` mounts and unmounts, `Collect` is gcTime, `Poll` a refetch
interval, `Send`/`Serve`/`Done` the mutation, its handler behind the guards and its
`onSuccess`, `OtherWrites`/`Hear` an event, `LoseLink`/`RegainLink` the socket. Queries
do not interact, so that one at a time is enough. `data` and `invalid` say whose
changes the cached answer lacks; `excused` that an event or a request was lost, or
an invalidation swallowed. Forms, dialogs and layout are left out, and so is the
ticket page's own listener, which writes a pushed comment straight into the cached
ticket (`apps/frontend/src/app/dashboard/tickets/[id]/page.tsx:81-102`): it adds what is
on the server already and drops nothing, and the `ticket:updated` that follows it
invalidates the same query.

### Outbox

`Commit` is a handler of `tickets.service.ts` up to its commit (the reads before it
are the subject of `Tickets`); `Find` and `AddJob` are `WebhooksService.trigger`,
`Answer` the end of the request, `Break` its failure. Not every change is an event:
`split`, `reopen`, a customer's reply to a finished ticket and `merge` set a status
without calling `trigger` (`Silent`), so that a subscriber goes on believing what it
heard before. `Take`, `Deliver` and `Stall` are the worker: a job is given up
(`failed`) when its POST fails or times out, because nothing sets `attempts` and
BullMQ's default is one; it is run once more only if the worker dies. A comment says
that a failed delivery is retried; `delivery_retry` shows that it is not.

`OnlyFailuresAreMissed` therefore does not say that subscribers are told. It says that
nothing is lost anywhere else: an event whose request was answered has arrived, is on
its way, or is a delivery that was given up, and of these there are no more than
failures. A request that breaks in `trigger` is not answered and its events are gone:
the code awaits the database and the queue there without catching. That contradicts
"mirroring AuditService.record", but what the comment states of the program is that a
subscriber that is down must never affect the request (`webhooks.service.ts:52-53`), and
that the code keeps. The AI queue, mails and audit rows are left out.

### Presence

One organization; counts and rooms are kept per organization. `presence` is the
gateway's map, `socket[s]` both ends of a connection with the events on their way
to the browser, `get[g]` a request for the snapshot, `tab[t]` the state of
`SocketProvider`. `Admit` and `Reject` are the two ends of `handleConnection`,
`Disconnect` is `handleDisconnect`, both with all of `trackPresence`; `Answer` is
`getOnlineUserIds`, `Apply` and `LoseGet` what becomes of its answer; `Mount` and
`Unmount` are the effect and its cleanup, `Deliver` is the handler of
`presence:update`, and `Reconnect` is what socket.io does by itself, perhaps
before the server has noticed that the old connection is gone. Verifying a token
and reading its session are one wait; joining the rooms of the in-memory adapter is
synchronous. `valid` and `sure` are bookkeeping: the users about whom a snapshot,
or a tab, knows no less than the events of the tab's socket.

A socket that closes while `handleConnection` waits is counted up after its
`handleDisconnect` has run, and is never counted down: the map's "active socket count"
(`CountIsActive`) is wrong from then on, which `presence_ghost` shows. What the code
does keep is `NobodyIsCountedOut`: a count never falls below the open sockets of its
user, and is exact as long as none of them was admitted after it closed. A tab that
reconnects asks for no new snapshot, so it is sure of nobody until the next event.

Definitions whose comment starts with "Mutant" are plausible errors, one for each
property (a dropped guard, a forgotten reset, an off-by-one). Nothing uses them;
put in the place of the definition they vary, they make TLC report the property,
which shows that it says something about the code.

## 3. Runs

| Run | Question | Bounds |
| --- | --- | --- |
| `tickets_serial` | Tickets: do pauses balance, is a waiting ticket's clock stopped, do first reply and rating stay, do the columns implement two clocks? (`TypeOK`, `PausesAreBalanced`, `WaitingStopsTheClock`, `FirstsStay`, `TargetsAreClocks`, which is `ResponseClock` and `ResolutionClock`). Screens: do screens show what was changed, and is nobody offered what is refused? (`ScreensTypeOK`, `ScreensAreFresh`, `NobodyIsTurnedAway`) | 1 ticket, 3 requests, 3 ticks, all endpoints but merge; every query, role and mutation of the user's that changes it, one mutation of others of each kind |
| `sweep_live` | Is a breach recorded once, never wrongly, and mailed only if recorded? (`DeskTypeOK`, `BreachLoggedOnce`, `BreachIsReal`, `MailIsBacked`) Is what is missed or due flagged in the end? (`SweepCatchesUp`: for both targets and the escalation) | 1 ticket, new, parked or answered at the start; 1 request, 1 sweep of 3 checks, 3 ticks, with fairness |
| `sessions` | Sessions: is revoked for good, no false alarm? (`TypeOK`, `RevokedForGood`, `NoFalseAlarm`). TicketDesk: are numbers gapless, notes kept from customers, assignees explained, people told once? (`TicketDeskTypeOK`, `NumbersAreGapless`, `CustomersSeeTheirs`, `HistoryExplainsTheRow`, `ToldOnce`). Tickets: what survives stale snapshots? (`LifecycleIsRecorded`: `FinishedIsStamped` and `ReopensAreCounted`). | 2 sessions, 2 browsers (1 flaky), 3 handlers, 2 ticks; 2 handlers that may fail anywhere, an agent, 2 customers, a ticket with a note, held and watched or not; 2 tickets and 3 handlers that interleave freely |
| `business_hours` | BusinessHours: is the due date exact without overlaps, never late, found if it exists, and does the walk end? (`TypeOK`, `DueDateIsRight`, `GivesUpOnlyIfHopeless`, `WalkEnds`). Outbox: is nothing missed but what failed, is the last word the status, does the queue drain? (`OnlyFailuresAreMissed`, `LastWordIsTheStatus`, `QueuesDrain`). ApiClient: is a lone tab ever taken for a thief, or refused without cause? (`LoneTabRaisesNoAlarm`, `RefusedOnlyIfOvertaken`). Rooms: is the socket in the room of its page, does typing end? (`RoomFollowsPage`, `TypingWillEnd`). `TypesOK` of these two | all schedules of up to 2 slots in 2-day weeks of 3-minute days, holidays on the first 2 days, 3 days scanned; 3 changes of any kind by 2 requests, a webhook, 2 deliveries at a time, 1 fault; a tab with 2 calls and 3 generations of cookies; 2 ticket pages, a typist, 3 pages mounted, 2 connections, 2 room events |
| `presence` | Presence: is nobody connected counted out and only who has a count listed, does a tab that has heard everything show the truth about whom it is sure of? (`NobodyIsCountedOut`, `ShownIsTrue`). Team: who has a role, is an organization manageable, is the invitation the way in? (`PrivilegeIsGranted`, `SomebodyManages`, `InvitationIsTheWayIn`). `TeamTypeOK` | 2 users with a tab each, 3 sockets, 2 snapshots under way; 3 accounts, 2 organizations, 2 links, 2 sessions, 2 handlers, 4 requests in all |

Seven runs end in a counterexample, because the code does something other than a
comment or document says:

| Run | Property | What happens |
| --- | --- | --- |
| `reopen_keeps_pause` | `OpenMeansRunning` | Park, resolve, reopen: the ticket is OPEN and its clock is still paused (`sla.service.ts:194`: resume is "called when a ticket moves back to OPEN"). The sweep skips it for ever. |
| `pause_race` | `PauseKeepsItsStart` | Two PATCHes that both saw the unpaused row both write `slaPausedAt` (`sla.service.ts:180`: "avoid clobbering the original pause timestamp"). |
| `merge_cycle` | `MergeHasASurvivor` | t1 into t2, then t2 into t1: both closed (`docs/database.md:79`: "exactly one surviving ticket"). |
| `suspension_race` | `SuspensionIsEffective` | A login that read the account before the suspension creates its session after it (`auth/strategies/jwt.strategy.ts:31`: suspending "takes effect immediately"). |
| `overlapping_slots` | `MinutesAreBusinessMinutes` | Overlapping slots of a day are counted twice, the due date is early (`sla/business-hours.util.ts:21`). |
| `presence_ghost` | `CountIsActive` | A socket that closes while its session is read is counted up afterwards and never down (`realtime/realtime.gateway.ts:55`: "active socket count"). |
| `delivery_retry` | `FailedIsRetried` | A delivery that fails once is given up (`webhooks/webhook-delivery.processor.ts:52`: "let it retry"). |

Why the bounds are enough. Handlers of `Tickets` interact through one row, and a
race needs two of them plus a third to observe or repair; requests on different
tickets share nothing but `merge`, which two tickets exercise. Three ticks cover
before, at and after a target of one or two. The sweep has one snapshot per
check, so one ticket and one request reach every order of snapshot, change and
flag; what a request before it may have done, parking the ticket or answering it, is in
the initial states, and a second candidate only adds another turn of the same loop. Two slots are
the least that can meet, overlap or be out of order, and two days the least with
an open and a closed one. Three sockets are a watcher, a connection, and its successor
that is opened before the server has noticed; two snapshots let an old one arrive
after a new one. The two users and their tabs are alike, and their
changing places is among the symmetries. An event that overtakes another needs two requests or two
deliveries; three changes are a creation, a resolution and a silent one. A query's
cache is touched by a fetch, a mutation and an event, and one of each is enough to
meet the others at every point; all tables are run through in full. `MaxNow` bounds the clock in `Tick`; at the bound cron
keeps firing, so that liveness is not vacuous. Requests and handlers run once
each, which bounds the counters.

TLC checks deadlock nowhere: every workload is finite and the system may
rest when it is done.

### Fairness

Only `sweep_live` and `business_hours` assume any. `business_hours`: the loop goes
on; the delivery worker takes the next job, and a delivery ends, because
`DELIVERY_TIMEOUT_MS` aborts it. `sweep_live`: time passes; a handler under way ends (by an answer or an error);
cron fires while the process lives; weak fairness for these. A query and a
transaction may fail any number of times but not always (strong fairness of
`Query` and `Flag`): the service counts on it ("it just tries again next minute",
`sla-breach-check.service.ts`). No fairness is assumed of users.

## 4. Proofs

TLC checks the instances above; TLAPS proves the following for every value of the
constants, from the assumptions named in the modules (types of the constants, and
markers like `NULL` distinct from values).

**`TicketsProofs`**: `TypeOK` and `LifecycleIsRecorded`
(`FinishedIsStamped` and `ReopensAreCounted`), for any
number of tickets and racing requests, any workload, policies, `AddBusinessMinutes`
that is given and clock bound. A handler commits a patch that it built from a row
that may have changed since, so none of the properties is inductive alone. The
inductive invariant `IInv` says of every patch under way what it may do to *any*
row it can meet: it stamps what it finishes and clears a stamp only when it reopens
(`Coherent`), it counts a reopening exactly if it logs one, a pause it writes or a
row carries lies in the past (otherwise a resume could move a due date backwards and
`TypeOK` would fail), and a ticket has no history before it exists.

Its second half: `PausesAreBalanced`, `WaitingStopsTheClock`, `FirstsStay` and
the refinement `TargetsAreClocks`, for any number of tickets, requests, policies and
clock bound, assuming `Serial`: none of the four survives two handlers that read the
same row (`pause_race` shows one of them). The strengthening `SInv` says that what
the one handler under way has read still holds: a patch of an endpoint, a
recomputation, a pause and a resume each fit the row they will meet (`FitsEndpoint`,
`FitsPause`, `FitsResume`), and time stands still meanwhile. It is needed because a
commit writes values computed from an earlier read. The refinement goes by columns:
`ModeOf` and `LeftOf` are the clock of a row, `Moves` what `SlaClock` lets one clock
do while time stands still; `CommitMoves` shows that each patch that fits is such a
move, a tick takes one from every running clock, and the other steps are stutters.

The rest of it is about three findings of section 3: not what the code keeps, but which
single circumstance is to blame. The start of a pause is kept by all interleavings in
which no two handlers are about to stop the clock of one ticket (`PauseStartKept`), and
so by requests one at a time. One request at a time, an open ticket's clock runs unless
a ticket was reopened that had been finished with its clock stopped (`OpenRuns`). And
merges, racing or not, form no cycle of any length if each is into a ticket that has
not been merged itself (`SurvivorsRemain`; `NoMergeCycle` says of every set of tickets
that one of them is not merged into another of the set): the code looks at the
source only. The hypotheses (`NoTwoPauses`, `NoStaleReopening`,
`OnlyIntoSurvivors`) are about behaviours, not about the constants, and none holds of
all behaviours: the violation runs show where they fail.

**`SlaSweepProofs`**: `DeskTypeOK`, `MailIsBacked` and `BreachLoggedOnce`, for any
requests and any finite number of sweeps (a queue counts its jobs, so that the sweeps
are counted). `DInv` adds to the invariant of `Tickets` that a check's candidates
exist (`CandidatesExist`), that requests never log or write what the sweep records
(`RequestsLogTheirOwn`), and, with one sweep, that a flag is set if and only if its
row of the history is there (`Recorded`) and that a candidate is still unrecorded
when its turn comes (`CandidatesAreFresh`). The last needs that the three checks set different
columns. `MailIsBacked` holds with overlapping sweeps as well; `BreachLoggedOnce` does
not, and says so.

`SweepsEnd` is what can be proved of `SweepCatchesUp`, for finitely many tickets and
sweeps that may overlap: a check under way can always go on (`CheckGoesOn`), each
step it takes, an exception included, leaves it fewer (`StepsLeft`), only cron gives it
new ones, and a row that was flagged is not selected by that check at any later instant.

Its second half: `BreachIsReal`, one request at a time and beside any finite number
of sweeps. Sweeps work from old snapshots, so the strengthening `BInv` says that
whatever is flagged, or is a candidate about to be, is `Late` for good: its due date
has passed, and a reply, a resolution or a pause only came after it. No request takes
that back, for what it may do to a due date is one of three things (`Shifts`): leave
it, recompute it to no later than it was, or add the pause that it ends, on a target
that is not met yet. The second is why the theorem assumes that requests know one
priority (the sweep may still raise it): a PATCH to a slower one recomputes the due date past
the moment of the flag, the flag stays, and a reply in time for the new due date finds
the ticket accused.

**`SessionsProofs`**: `TypeOK`, `OwnSession`, `NoFalseAlarm`, `CookieIsCurrent` and
the action property `RevokedForGood`, for any number of sessions, browsers and
requests. `IInv` adds to the properties who may hold which token: what cookies and
requests refer to exists (`Placed`), a session belongs to one browser (`Owned`), a
browser with one tab and a reliable network has one request at a time
(`SingleTab`), and its cookie is the one its session expects, or the reply that
brings the right one is on the way (`ReplyIsCurrent`, `CookieIsKept`). Without the
replies under way the rest is not inductive: between the rotation's write and
the delivery the cookie is stale. `RevokedForGood` needs only that no session row is
created twice.

`SuspensionHolds` says which race `suspension_race` is about: a suspension takes effect,
and goes on to, in all behaviours in which no login is between its check of the account
and the insertion of its session when the account is suspended (`NoLoginPending`).
Refreshes, resets and verifications need no such condition, and requests one at a time
(`OneAtATime`) meet it.

**`BusinessHoursProofs`**: `TypeOK`, `DueDateIsExact`, `NeverLate` and
`GivesUpOnlyIfHopeless`, for any length of day and week, any schedules, holidays,
start, target and limit of days. The loop invariant (`AtScan`, `AtSlots`) counts
business minutes: those before the cursor, and those of the rest of today that the
slots already taken cover, are at most the minutes used up, and exactly them if no
two slots of a day overlap; the slots still to take begin no earlier than those
taken; the cursor is `daysScanned` midnights after the start. The lemmas carry the
arithmetic: an instant has one day and one minute (`Clock`, `Quotient`,
`SameDay`), adjoining intervals add up (`CountAdds`), a slot covers an interval
(`CoveredSlot`), one more slot adds its minutes (`TakeOne`), the rest of a
day is what its slots cover (`RestOfDay`), and before the due date nothing is left
out because slots are taken in order (`LastSlot`).

`EveryStepCounts` is what can be proved of `WalkEnds`: `Fuel`, a natural number made
of the days that may still be looked at and the slots left of today, falls with
every step, and until the walk has returned or thrown it can go on.

**`TabProofs`** has what a tab shows.

`Presence` (`TypeOK`, `NobodyIsCountedOut`, `ShownIsTrue`), for any number of
users, tabs, connections and snapshots. Inductive is that a count is that of the
admitted sockets, closed or not (`CountsMatch`), with the types (`Typed`) and once
sockets in use have a tab (`Linked`); `NobodyIsCountedOut` and that no count exceeds the
number of sockets follow from it. `ShownIsTrue` speaks of tabs whose inbox is empty; inductive is
what holds of the others (`Truth`): the last event under way about a user is what
the gateway holds, and about a user without one, the tab and the snapshots that
vouch for the user agree with the gateway. A tab whose socket waits to be
admitted has been sent nothing and vouches for nobody (`Quiet`). `Telling` and
`Hearing` are the two facts about queues it rests on: what an announcement does at
the end of an inbox and what listening does at its head.

`Screens` (`ScreensTypeOK`, `ScreensAreFresh`, `NobodyIsTurnedAway`), for every query,
role, page and mutation there is, any set of writes of the others (`Others`) and any
pairs tried at once (`Both`), under `ScreensAssumption` (`NULL` is no write, and what the
others do is one). First the tables of `WebApp` are shown to fit each other:
each query and mutation has one hook and one controller (`OneHook`, `OneHookDrops`,
`OneApi`); what a mutation changes its hook drops or an event reaches, save `Forgotten`
(`OwnChangesShow`); what others change an event reaches, save `Unannounced`
(`OthersAreHeard`); what a page offers is granted (`OffersAreGranted`) and what it
shows is answered (`ShownIsAnswered`). `ScreensAreFresh` speaks of a tab at rest;
inductive is that an answer that lacks a change is not the last word (`Shown`): an
event or the mutation's own answer is still to come and will drop it (`Coming`), or
a load that began after the change, now or when the page is opened, will replace it
(`Replaced`).

**`TeamProofs`**: `TeamTypeOK`, `PrivilegeIsGranted` and `PasswordBeforeSession`,
for any accounts, organizations, links, sessions and requests, under
`TeamAssumption` (the constants' types, `NULL` no address, slug or key, a demo
organization that exists).
A handler checks first and writes later, so `IInv` says of every request under way
what it was entitled to when it was checked; that it still is when it commits
follows from `Grows`: accounts are never deleted, never change their
organization and never lose their password, and who was an administrator once has
been one.

Its second half is about a calm workload: `SomebodyManages` and, with
`PasswordBeforeSession`, `InvitationIsTheWayIn`. What a request was checked against
can only change by another request, and there is none (`OneByOne`), so that it still
holds when it commits (`RequestIsFresh`): whoever demotes or suspends a manager is
another active manager. A token may speak for an account that was suspended after it
was issued; none does, because a suspension deletes the sessions before the next
request begins (`LiveIsActive`). `InvitedHasInvitation` needs that a link is of one
account for good.

**`TicketDeskProofs`**: `TicketDeskTypeOK`, `NumbersAreGapless`, `CustomersSeeTheirs`,
`HistoryExplainsTheRow` and `ToldOnce`, for any staff, customers and requests that
overlap and fail anywhere, under `TicketDeskAssumption` (staff are no customers; the
requests, whose keys are those of the tickets they create, are finite in number,
because numbers are counted). `DeskIsSound` says what a handler carries from its read to
its writes: a ticket that exists and that its caller may open, both for good because
tickets stay and keep their requester, or a number and a key that are still free. On
top of it each property has a strengthening of its own. Numbers: whoever holds the
counter's row lock has the number that is next (`NumbersAreSound`); the lock goes with the
transaction, so a rollback gives the number back. Comments: each one of a
thread, and every copy a split has taken and not yet written, is of that requester
and as internal as its author said (`CommentsAreSound`); a room holds only those who
may enter. Notices: a handler names each recipient once, and whoever it still
has to tell has not been told (`IsToldOnce`).

**`ClientProofs`** has the backend's three conversations with its clients (`TypesOK` is
the types of the first two).

`Rooms` (`RoomsTypeOK`, `TypingWillEnd`, `RoomFollowsPage`, under `RoomsAssumption`: types
and bounds). The property speaks of the moment when every message is handled; inductive
is what the messages under way will make of the rooms. The last message is the join of
the page that is mounted (`PageIsJoined`), every other join, sent or buffered, is
followed by its leave (`Undone`), and a room that is not the page's has its leave under
way, or lost it to a join that was slower (`OthersAreLeft`).

`ApiClient` (`ApiTypeOK`, `LoneTabRaisesNoAlarm`, `RefusedOnlyIfOvertaken`, for any tabs,
calls and generations, under `ApiAssumption`). Generations are handed out in order
(`Numbered`); the token of a lone tab is that of its cookie until it is overtaken
(`TokenMatches`, `HasToken`), so that the guard has no cause to refuse (`Refused`). For
the alarm, `Quiet` says of every token the tab has, or will have when an
answer arrives, that it is the last of its session, and that no two of these are the
same; a rotation replaces the last token of one session, of which no other token
held is one.

`Outbox` (`OnlyFailuresAreMissed`, `LastWordIsTheStatus`, for any webhooks, requests, workers
and faults, under `OutboxAssumption`: `NULL` is no number and no event, and
webhooks want events). Whether a webhook hears of a change is owed by a request,
queued as one job, or settled, and never two of these (`Once`), so that what has
arrived twice is paid for by a fault (`Counted`); who had subscribed before a change
that is settled has heard, or has a delivery that is queued or was given up (`Told`),
and each that was given up has cost a fault (`Afforded`). Without overlap and without a fault every
subscriber's changes come in order (`Ordered`), and the status is what was last set
(`LastSet`, `HasLast`). `WorkCounts` is what can be proved of `QueuesDrain`, for any
finite number of faults and at least one delivery at a time: each step of a worker
makes the `Backlog` smaller, only a request that queues an event makes it larger, and
while there are jobs there is one to take or to finish.

The strengthened invariants of the passing runs' properties were checked by TLC on the
instances above as well.

Every invariant and every action property of the passing runs is stated by a theorem,
the refinement `TargetsAreClocks` included. The type invariant of `Presence` is proved
only; what a wrong count could break in it is part of `NobodyIsCountedOut`, which a run checks.
Only model-checked: that what can go on does go on. Of the three liveness
properties (`SweepCatchesUp`, `WalkEnds`, `QueuesDrain`) the theorems above give the
measure that falls and that nothing gets stuck; that fairness turns the two
into an end is out of the prover's reach (`ENABLED`, and induction with an operator as
its parameter), and stays with TLC. The seven violation runs are shown by TLC alone;
of five it is proved that the property holds where the circumstance shown is absent: the three
of `Tickets` (`OpenRuns` for requests one at a time only), the login of
`SuspensionHolds`, and overlapping slots (`DueDateExact`). Of a ghost in the socket counts it is
proved that it can only add to a count and that without one the count is that of the
open sockets (`NobodyCountedOut`); of deliveries that are not retried, that no more events
are missed than deliveries have failed (`FailuresAloneAreMissed`). No module uses
`RECURSIVE`, so that every module can be proved about.

## 5. Not modelled, and the plan

Not modelled, because nothing in it interacts with anything modelled, or only by a
value that is a constant here:

* the rows of SLA policies, schedules and holidays: each request is one transaction
  and a computation reads them once; what matters of them is the due date;
* analytics and dashboards: read-only SQL. Who may read them, and when a tab asks
  again, is in `WebApp`;
* AI prompts and providers, storage, the mail worker: external calls whose failure is
  an action where something depends on it (`Attach`, `Mail`, `Break`);
* audit rows (append-only), slugs of articles, rows of macros and saved filters
  (single statements that nothing else reads);
* forms, drafts, dialogs and layout of the frontend; throttling, configuration and
  health; migrations;
* days on which the clocks change.

Next:

1. Days of unequal length in `BusinessHours`.
2. The default policy and schedule under concurrent requests.
