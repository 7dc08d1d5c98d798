----------------------------- MODULE TicketDesk -----------------------------
(***************************************************************************)
(* Who sees, holds and hears of a ticket                                   *)
(* (apps/backend/src/tickets/tickets.service.ts,                           *)
(* notifications/notifications.service.ts, realtime/realtime.gateway.ts).  *)
(* Tickets models the row's status and clocks; this module models the rest *)
(* of the same handlers: ticket numbers, the comment thread and who is     *)
(* shown it, assignee, tag and watchers beside the history that is to      *)
(* explain them, and the notifications a reply, an assignment or an        *)
(* escalation sends.                                                       *)
(*                                                                         *)
(* Abstractions.  One organization.  A ticket or a comment bears the name  *)
(* of the request that created it.  A body is whether its author meant it  *)
(* for staff only.  Of a history row the columns are kept that say what    *)
(* became of the assignee or the tag; rows are a set, for their timestamps *)
(* are not the order of the commits.  One tag.  Attachments are a step     *)
(* after the commit that may fail.  Of an answer only the comments are     *)
(* kept, and merge, which moves no comment, is left out.                   *)
(***************************************************************************)
EXTENDS Integers, FiniteSets, Null

CONSTANTS
  Requests,      \* one id per HTTP request
  Old,           \* the ticket that exists at the start, and its comments
  Staff,         \* users with a staff role
  Customers,     \* the others
  Requester,     \* the customer who filed Old
  Workload       \* bound on the requests of a behaviour

Users == Staff \cup Customers
TicketIds == Requests \cup {Old}
Staffed == {"assign", "unassign", "escalate", "split", "tag", "untag"}
Kinds == {"create", "comment", "watch", "unwatch", "view"} \cup Staffed

VARIABLES
  nextNumber,    \* organizations.nextTicketNumber, as committed
  rowLock,       \* the transaction that holds the organization's row lock
  ticket,        \* the tickets table, watchers and tags joined in
  thread,        \* per ticket, its comments
  log,           \* per ticket, the history rows about assignee and tag
  room,          \* per ticket, the users with a socket in its room
  request,       \* where each handler has got to
  notices,       \* notifications created, per request and user
  shown          \* what each customer has been shown of comments

ticketDeskVars == <<nextNumber, rowLock, ticket, thread, log, room, request,
                    notices, shown>>

-----------------------------------------------------------------------------
Ticket == [number : Nat \ {0}, requester : Users, assignee : Users \cup {NULL},
           watchers : SUBSET Users, tagged : BOOLEAN, splitOff : BOOLEAN]

\* secret: the author marked it INTERNAL; visibility: the column.
Comment == [id : TicketIds, about : Users, secret : BOOLEAN,
            visibility : {"PUBLIC", "INTERNAL"}]

\* NULL is no row, no user and no id; nobody is staff and customer at once.
ASSUME TicketDeskAssumption ==
  /\ NULL \notin Users \cup Requests \cup Ticket
  /\ Requester \in Customers /\ Staff \cap Customers = {}
  /\ Old \notin Requests /\ IsFiniteSet(Requests) /\ Workload \in Nat

LogEntry == [action : {"ASSIGNED", "TRANSFERRED", "ESCALATED", "UNASSIGNED",
                       "TAG_ADDED", "TAG_REMOVED"},
             to : Users \cup {NULL}]

\* The handler's local variables: the caller, the ticket of the URL, what the
\* body asks for, and what it will tell whom.
Request == [pc : {"idle", "number", "commit", "attach", "push", "tell",
                  "answer", "done", "failed"},
            kind : Kinds, by : Users, ticket : TicketIds,
            secret : BOOLEAN, to : Users \cup {NULL}, number : Nat,
            held : Users \cup {NULL}, copies : SUBSET Comment,
            recipient : Users \cup {NULL}, watchers : SUBSET Users]

Idle == [pc |-> "idle", kind |-> "view", by |-> Requester, ticket |-> Old,
         secret |-> FALSE, to |-> NULL, number |-> 0, held |-> NULL,
         copies |-> {}, recipient |-> NULL, watchers |-> {}]

Existing == {t \in TicketIds : ticket[t] # NULL}
UnderWay(r) == request[r].pc \notin {"idle", "done", "failed"}

\* getTicketOrThrow: staff reach every ticket, a customer the own ones.
MayOpen(u, t) == u \in Staff \/ ticket[t].requester = u

\* toTicketDetail, findOne: the comments the REST layer puts into an answer.  To
\* it belong also number and subject of the tickets this one was merged into and
\* split from, whoever filed them, and a customer may read the whole history of
\* a ticket of his: neither is modelled.
VisibleTo(u, t) ==
  IF u \in Staff THEN thread[t]
                 ELSE {c \in thread[t] : c.visibility = "PUBLIC"}

ShowTo(us, cs) ==
  shown' = [u \in Customers |-> IF u \in us THEN shown[u] \cup cs ELSE shown[u]]

Begin(r, q) == request' = [request EXCEPT ![r] = q]

Proceed(r, pc) == request' = [request EXCEPT ![r].pc = pc]

MayBegin(r) ==
  /\ request[r].pc = "idle"
  /\ Cardinality({q \in Requests : request[q].pc # "idle"}) < Workload

-----------------------------------------------------------------------------
(* Reading the ticket, deciding *)

\* create: customers file for themselves, staff for anybody of the org.
StartCreate(r) ==
  /\ MayBegin(r)
  /\ \E u \in Users, q \in Users :
       /\ u \in Staff \/ q = u
       /\ Begin(r, [Idle EXCEPT !.pc = "number", !.kind = "create", !.by = u,
                                !.ticket = r, !.to = q])
  /\ UNCHANGED <<nextNumber, rowLock, ticket, thread, log, room, notices,
                 shown>>

\* addComment: recipients and watchers are those of the snapshot.
AllButAuthor(watchers, author, recipient) == watchers \ {author}
AllBut(watchers, author, recipient) == watchers \ {author, recipient}

OtherThan(u, v) == IF v = u THEN NULL ELSE v
Recipient(u, t) == IF u \in Staff THEN ticket[t].requester
                                  ELSE ticket[t].assignee

StartComment(r) ==
  /\ MayBegin(r)
  /\ \E u \in Users, t \in Existing, secret \in BOOLEAN :
       /\ MayOpen(u, t)
       /\ secret => u \in Staff
       /\ Begin(r, [Idle EXCEPT
            !.pc = "commit", !.kind = "comment", !.by = u, !.ticket = t,
            !.secret = secret, !.recipient = OtherThan(u, Recipient(u, t)),
            !.watchers = AllBut(ticket[t].watchers, u, Recipient(u, t))])
  /\ UNCHANGED <<nextNumber, rowLock, ticket, thread, log, room, notices,
                 shown>>

\* assign (also POST transfer), unassign, escalate, addTag, removeTag: any
\* member of the organization may be made assignee.
Target(k, to, held) ==
  CASE k = "assign" -> to
    [] k = "escalate" -> IF to = NULL THEN held ELSE to
    [] OTHER -> NULL
AfterCheck(k, held) ==
  IF k = "unassign" /\ held = NULL THEN "answer" ELSE "commit"

StartStaffed(r) ==
  /\ MayBegin(r)
  /\ \E u \in Staff, t \in Existing, k \in Staffed \ {"split"},
        to \in Users \cup {NULL} :
       /\ k = "assign" => to # NULL
       /\ k \notin {"assign", "escalate"} => to = NULL
       /\ Begin(r, [Idle EXCEPT
            !.pc = AfterCheck(k, ticket[t].assignee), !.kind = k, !.by = u,
            !.ticket = t, !.to = to, !.held = ticket[t].assignee,
            !.recipient = OtherThan(u, Target(k, to, ticket[t].assignee))])
  /\ UNCHANGED <<nextNumber, rowLock, ticket, thread, log, room, notices,
                 shown>>

\* split: the comments are copied from the snapshot.
CopiedAsPublic(c) == [c EXCEPT !.visibility = "PUBLIC"]
Copied(c) == c

StartSplit(r) ==
  /\ MayBegin(r)
  /\ \E u \in Staff, t \in Existing : \E cs \in SUBSET thread[t] :
       Begin(r, [Idle EXCEPT !.pc = "number", !.kind = "split", !.by = u,
                             !.ticket = t, !.held = ticket[t].assignee,
                             !.copies = {Copied(c) : c \in cs}])
  /\ UNCHANGED <<nextNumber, rowLock, ticket, thread, log, room, notices,
                 shown>>

\* findOne; watch and unwatch also write, but their write depends on nothing
\* that can change after the check.
StartWatch(r) ==
  /\ MayBegin(r)
  /\ \E u \in Users, t \in Existing, k \in {"watch", "unwatch", "view"} :
       /\ MayOpen(u, t)
       /\ Begin(r, [Idle EXCEPT !.pc = "answer", !.kind = k, !.by = u,
                                !.ticket = t])
       /\ ticket' = [ticket EXCEPT ![t].watchers =
                       CASE k = "watch" -> @ \cup {u}
                         [] k = "unwatch" -> @ \ {u}
                         [] OTHER -> @]
  /\ UNCHANGED <<nextNumber, rowLock, thread, log, room, notices, shown>>

-----------------------------------------------------------------------------
(* The transactions *)

Numbered(r) ==
  /\ request[r].pc = "number"
  /\ rowLock' = r
  /\ request' = [request EXCEPT ![r].number = nextNumber, ![r].pc = "commit"]
  /\ UNCHANGED <<nextNumber, ticket, thread, log, room, notices, shown>>

NumberUnlocked(r) == Numbered(r)

\* organization.update increments inside the transaction: the row stays
\* locked until it commits or rolls back, and a second one waits here.
Number(r) == rowLock = NULL /\ Numbered(r)

NewTicket(number, requester, assignee, splitOff) ==
  [number |-> number, requester |-> requester, assignee |-> assignee,
   watchers |-> {}, tagged |-> FALSE, splitOff |-> splitOff]

\* The rest of create's transaction: ticket, first comment, CREATED.
Create(r) ==
  LET q == request[r] IN
  /\ q.pc = "commit" /\ q.kind = "create"
  /\ rowLock' = NULL
  /\ nextNumber' = q.number + 1
  /\ ticket' = [ticket EXCEPT ![r] = NewTicket(q.number, q.to, NULL, FALSE)]
  /\ thread' = [thread EXCEPT ![r] = {[id |-> r, about |-> q.to,
                                       secret |-> FALSE,
                                       visibility |-> "PUBLIC"]}]
  /\ Proceed(r, "attach")
  /\ UNCHANGED <<log, room, notices, shown>>

\* The rest of split's: the new ticket keeps requester, assignee and what each
\* copied comment was.
Split(r) ==
  LET q == request[r] IN
  /\ q.pc = "commit" /\ q.kind = "split"
  /\ rowLock' = NULL
  /\ nextNumber' = q.number + 1
  /\ ticket' = [ticket EXCEPT ![r] =
                  NewTicket(q.number, ticket[q.ticket].requester, q.held, TRUE)]
  /\ thread' = [thread EXCEPT ![r] = q.copies]
  /\ request' = [request EXCEPT ![r].pc = "answer", ![r].ticket = r]
  /\ UNCHANGED <<log, room, notices, shown>>

AddComment(r) ==
  LET q == request[r] IN
  /\ q.pc = "commit" /\ q.kind = "comment"
  /\ thread' = [thread EXCEPT ![q.ticket] = @ \cup
                 {[id |-> r, about |-> ticket[q.ticket].requester,
                   secret |-> q.secret,
                   visibility |-> IF q.secret THEN "INTERNAL" ELSE "PUBLIC"]}]
  /\ Proceed(r, "attach")
  /\ UNCHANGED <<nextNumber, rowLock, ticket, log, room, notices, shown>>

\* The row and its history entry are written in one transaction; which of
\* ASSIGNED and TRANSFERRED is the snapshot's word.
Rewrite(r, new, entry) ==
  /\ request[r].pc = "commit"
  /\ ticket' = [ticket EXCEPT ![request[r].ticket] = new]
  /\ log' = [log EXCEPT ![request[r].ticket] = @ \cup {entry}]
  /\ Proceed(r, "tell")
  /\ UNCHANGED <<nextNumber, rowLock, thread, room, notices, shown>>

Current(r) == ticket[request[r].ticket]

Assign(r) ==
  LET q == request[r] IN
  /\ q.kind = "assign"
  /\ Rewrite(r, [Current(r) EXCEPT !.assignee = q.to],
             [action |-> IF q.held = NULL THEN "ASSIGNED" ELSE "TRANSFERRED",
              to |-> q.to])

Unassign(r) ==
  /\ request[r].kind = "unassign"
  /\ Rewrite(r, [Current(r) EXCEPT !.assignee = NULL],
             [action |-> "UNASSIGNED", to |-> NULL])

EscalateWithoutNewAssignee(r) ==
  LET q == request[r] IN
  /\ q.kind = "escalate"
  /\ Rewrite(r, [Current(r) EXCEPT !.assignee =
                                     IF q.to = NULL THEN @ ELSE q.to],
             [action |-> "ESCALATED", to |-> NULL])

Escalate(r) ==
  LET q == request[r] IN
  /\ q.kind = "escalate"
  /\ Rewrite(r, [Current(r) EXCEPT !.assignee =
                                     IF q.to = NULL THEN @ ELSE q.to],
             [action |-> "ESCALATED", to |-> q.to])

AddTag(r) ==
  /\ request[r].kind = "tag"
  /\ Rewrite(r, [Current(r) EXCEPT !.tagged = TRUE],
             [action |-> "TAG_ADDED", to |-> NULL])

RemoveTag(r) ==
  /\ request[r].kind = "untag"
  /\ Rewrite(r, [Current(r) EXCEPT !.tagged = FALSE],
             [action |-> "TAG_REMOVED", to |-> NULL])

-----------------------------------------------------------------------------
(* After the commit *)

Attach(r) ==
  LET q == request[r] IN
  /\ q.pc = "attach"
  /\ Proceed(r, IF q.kind = "comment" /\ ~q.secret THEN "push" ELSE "answer")
  /\ UNCHANGED <<nextNumber, rowLock, ticket, thread, log, room, notices,
                 shown>>

\* emitToTicket: a PUBLIC comment goes whole to everybody in the room.
Push(r) ==
  LET q == request[r] IN
  /\ q.pc = "push"
  /\ ShowTo(room[q.ticket], {c \in thread[q.ticket] : c.id = r})
  /\ Proceed(r, "tell")
  /\ UNCHANGED <<nextNumber, rowLock, ticket, thread, log, room, notices>>

\* One notifications.create per await: the recipient, then the watchers.
Tell(r) ==
  LET q == request[r] IN
  /\ q.pc = "tell"
  /\ \/ /\ q.recipient # NULL
        /\ notices' = [notices EXCEPT ![r][q.recipient] = @ + 1]
        /\ request' = [request EXCEPT ![r].recipient = NULL]
     \/ /\ q.recipient = NULL
        /\ \E w \in q.watchers :
             /\ notices' = [notices EXCEPT ![r][w] = @ + 1]
             /\ request' = [request EXCEPT ![r].watchers = @ \ {w}]
     \/ /\ q.recipient = NULL /\ q.watchers = {}
        /\ Proceed(r, "answer")
        /\ UNCHANGED notices
  /\ UNCHANGED <<nextNumber, rowLock, ticket, thread, log, room, shown>>

\* return this.findOne(user, id)
Answer(r) ==
  LET q == request[r] IN
  /\ q.pc = "answer"
  /\ ShowTo({q.by}, VisibleTo(q.by, q.ticket))
  /\ Proceed(r, "done")
  /\ UNCHANGED <<nextNumber, rowLock, ticket, thread, log, room, notices>>

\* Any await may fail: the transaction that was open is rolled back, what was
\* committed stays.
Fail(r) ==
  /\ UnderWay(r)
  /\ rowLock' = IF rowLock = r THEN NULL ELSE rowLock
  /\ Proceed(r, "failed")
  /\ UNCHANGED <<nextNumber, ticket, thread, log, room, notices, shown>>

-----------------------------------------------------------------------------
(* The gateway (Rooms models a tab's side of it) *)

\* ticket:join checks as the REST layer does; ticket:leave and a lost
\* connection leave.
MayEnter(u, t) == u \in Staff \/ ticket[t].requester = u

Join ==
  /\ \E u \in Users, t \in Existing :
       MayEnter(u, t) /\ room' = [room EXCEPT ![t] = @ \cup {u}]
  /\ UNCHANGED <<nextNumber, rowLock, ticket, thread, log, request, notices,
                 shown>>

Leave ==
  /\ \E t \in TicketIds : \E u \in room[t] :
       room' = [room EXCEPT ![t] = @ \ {u}]
  /\ UNCHANGED <<nextNumber, rowLock, ticket, thread, log, request, notices,
                 shown>>

-----------------------------------------------------------------------------
First == [id |-> Old, about |-> Requester, secret |-> FALSE,
          visibility |-> "PUBLIC"]
Note == [First EXCEPT !.secret = TRUE, !.visibility = "INTERNAL"]

\* A ticket that has already been filed, noted upon, perhaps assigned to a
\* member of staff and perhaps watched by its requester.
TicketDeskInit ==
  /\ nextNumber = 2 /\ rowLock = NULL
  /\ \E holder \in Staff \cup {NULL}, watchers \in SUBSET {Requester} :
       /\ ticket = [t \in TicketIds |->
                      IF t = Old
                      THEN [number |-> 1, requester |-> Requester,
                            assignee |-> holder, watchers |-> watchers,
                            tagged |-> FALSE, splitOff |-> FALSE]
                      ELSE NULL]
       /\ log = [t \in TicketIds |->
                   IF t = Old /\ holder # NULL
                   THEN {[action |-> "ASSIGNED", to |-> holder]} ELSE {}]
  /\ thread = [t \in TicketIds |-> IF t = Old THEN {First, Note} ELSE {}]
  /\ room = [t \in TicketIds |-> {}]
  /\ request = [r \in Requests |-> Idle]
  /\ notices = [r \in Requests |-> [u \in Users |-> 0]]
  /\ shown = [u \in Customers |-> {}]

TicketDeskNext ==
  \/ \E r \in Requests :
       \/ StartCreate(r) \/ StartComment(r) \/ StartStaffed(r)
       \/ StartSplit(r) \/ StartWatch(r)
       \/ Number(r) \/ Create(r) \/ Split(r) \/ AddComment(r)
       \/ Assign(r) \/ Unassign(r) \/ Escalate(r) \/ AddTag(r) \/ RemoveTag(r)
       \/ Attach(r) \/ Push(r) \/ Tell(r) \/ Answer(r) \/ Fail(r)
  \/ Join
  \/ Leave

TicketDeskSpec == TicketDeskInit /\ [][TicketDeskNext]_ticketDeskVars

-----------------------------------------------------------------------------
(* Properties *)

\* Every variable has its type, and only a request that has numbered a ticket
\* and not yet committed it holds the organization's row.
TicketDeskTypeOK ==
  /\ nextNumber \in Nat \ {0} /\ rowLock \in Requests \cup {NULL}
  /\ ticket \in [TicketIds -> Ticket \cup {NULL}]
  /\ thread \in [TicketIds -> SUBSET Comment]
  /\ log \in [TicketIds -> SUBSET LogEntry]
  /\ room \in [TicketIds -> SUBSET Users]
  /\ request \in [Requests -> Request]
  /\ notices \in [Requests -> [Users -> Nat]]
  /\ shown \in [Customers -> SUBSET Comment]
  /\ \A r \in Requests :
       rowLock = r <=> /\ request[r].pc = "commit"
                       /\ request[r].kind \in {"create", "split"}

\* schema.prisma calls the number a per-organization sequence: however
\* creations and splits overlap, fail and roll back, the tickets bear the
\* numbers from 1 up, each once.
NumbersAreGapless ==
  /\ {ticket[t].number : t \in Existing} = 1..Cardinality(Existing)
  /\ nextNumber = Cardinality(Existing) + 1

\* No customer is ever shown a comment that was written for staff, nor one of
\* another customer's ticket: not in the thread an answer returns, not by a push
\* into a room, not by the copy a split made of a note.  It is about comments:
\* see VisibleTo for what else an answer holds.
CustomersSeeTheirs ==
  \A u \in Customers : \A c \in shown[u] : ~c.secret /\ c.about = u

\* The history explains the row: a ticket's assignee was named by one of its
\* history rows, a tag was added by one, and a ticket once held and now free
\* has a row that says so, whatever the order the handlers overlapped in (a
\* ticket split off starts with the source's assignee).
HistoryExplainsTheRow ==
  \A t \in Existing :
    /\ ticket[t].assignee # NULL /\ ~ticket[t].splitOff =>
         \E e \in log[t] : e.to = ticket[t].assignee
    /\ ticket[t].assignee = NULL /\ (\E e \in log[t] : e.to # NULL) =>
         \E e \in log[t] : e.action = "UNASSIGNED"
    /\ ticket[t].tagged => \E e \in log[t] : e.action = "TAG_ADDED"

\* addComment's notices: nobody hears twice of one request, nobody of the own,
\* and once a staff member's public reply is answered the requester has been
\* told.
ToldOnce ==
  \A r \in Requests :
    /\ \A u \in Users : notices[r][u] <= IF u = request[r].by THEN 0 ELSE 1
    /\ LET q == request[r] IN
       q.pc = "done" /\ q.kind = "comment" /\ q.by \in Staff /\ ~q.secret =>
         LET u == ticket[q.ticket].requester IN
         notices[r][u] = IF u = q.by THEN 0 ELSE 1

=============================================================================
